---- MODULE Spec2Model ----
(***************************************************************************)
(* A model of rowgenerators' resolution-and-acquisition layer:             *)
(*   - fetch.py  download / _download : the cache, its lock, the transfer   *)
(*   - util.py   parse_url_to_dict / unparse_url_dict / reparse_url         *)
(*   - urls.py   the Url variants, get_handler, update, rebuild_url         *)
(*   - fetch.py  inspect / enumerate_contents                               *)
(* Python strings are TLA+ strings (Len and \o apply to them).              *)
(*                                                                         *)
(* Three specifications share the module: Spec (concurrent download        *)
(* calls; SpecLive is Spec with callers that keep running),                *)
(* SpecResolve (one locator through the parsing and resolving              *)
(* operations) and SpecInspect (one descriptor and its resource through    *)
(* inspect and enumerate_contents).  Each leaves the variables of the      *)
(* other two at rest.                                                      *)
(***************************************************************************)
EXTENDS Integers, Sequences, FiniteSets, TLC

VARIABLES
    backend,    \* "os": cache_fs.getsyspath works; "mem": it raises NoSysPath
    urlKind,    \* which branch of _download the url takes: "http", "ftp", "s3"
    dirs,       \* dirs[k]: what is at the directory of cache path k
    cache,      \* cache[k]: the file at cache path k
    lockHolder, \* lockHolder[k]: the caller holding FileLock(path k + '.lock'), or 0
    pc,         \* pc[p]: where caller p is in download()
    clean,      \* clean[p]: the clean argument of caller p's call
    cpath,      \* cpath[p]: the local variable cache_path of caller p
    exc,        \* exc[p]: the exception in flight in, or raised by, caller p's call
    ret,        \* ret[p]: what the call returned, (cache_path, download time)
    xfer,       \* xfer[p]: "started" once p's call entered _download, then "completed"
    after,      \* after[p]: the callers whose call had ended when p's call began
    initial     \* the cache state the run began in (never changes)

VARIABLES
    locator,    \* the raw locator string
    kwargs,     \* the keyword arguments given with it
    upc,        \* which operation was applied last
    parsed,     \* parse_url_to_dict(locator)
    unparsed,   \* unparse_url_dict(parsed)
    reparsed,   \* parse_url_to_dict(unparsed)
    handler,    \* get_handler(locator, **kwargs)
    desc,       \* Url(locator, **kwargs)
    rebuilt,    \* desc.rebuild_url()
    again,      \* Url(rebuilt)
    given,      \* the file name or the segment passed to update, or None
    updated     \* desc.update(...) with it

VARIABLES
    subject,    \* the descriptor given to inspect / enumerate_contents
    resource,   \* what is behind its resource_url
    fetched,    \* the resource urls download_and_cache has put into the cache
    ipc,        \* which operation was applied last
    found,      \* inspect(subject)
    second,     \* inspect(found[0])
    leaves,     \* list(enumerate_contents(subject))
    leafIx,     \* how many of the leaves have been inspected once more
    third,      \* inspect(leaves[leafIx - 1])
    got         \* download_and_cache(subject, cache_fs), called on its own

dvars == <<backend, urlKind, dirs, cache, lockHolder, pc, clean, cpath, exc, ret,
           xfer, after, initial>>
uvars == <<locator, kwargs, upc, parsed, unparsed, reparsed, handler, desc, rebuilt,
           again, given, updated>>
ivars == <<subject, resource, fetched, ipc, found, second, leaves, leafIx, third, got>>
vars == <<dvars, uvars, ivars>>

(***************************************************************************)
(* Bounds of the model.                                                    *)
(***************************************************************************)
NProc == 2          \* callers of download(), each calling once
MaxAltFiles == 1    \* alternate directories dn0, dn1, ... occupied by a file at start
MaxEntries == 2     \* entries of an archive

(***************************************************************************)
(* Python strings and the library functions the URL code calls.            *)
(***************************************************************************)
\* None, and the exceptions a string-valued function can raise.
None == "<None>"
ValueError == "<ValueError>"

Falsy(v) == v = None \/ v = ""
Truthy(v) == ~Falsy(v)
IsExc(v) == v = ValueError

Min(S) == CHOOSE m \in S : \A n \in S : m <= n
Max(S) == CHOOSE m \in S : \A n \in S : m >= n

\* s[a-1:b], clamped to the string as Python's slices are
Slice(s, a, b) == SubSeq(s, IF a < 1 THEN 1 ELSE a, IF b > Len(s) THEN Len(s) ELSE b)

Ch(s, i) == IF i < 1 \/ i > Len(s) THEN "" ELSE SubSeq(s, i, i)
From(s, i) == SubSeq(s, IF i < 1 THEN 1 ELSE i, Len(s))
Upto(s, i) == SubSeq(s, 1, IF i > Len(s) THEN Len(s) ELSE i)

\* s.find(c, start) and s.rfind(c) for a one-character c, counted from 1;
\* 0 when c is not found.
First(hits) == IF hits = {} THEN 0 ELSE Min(hits)
Last(hits) == IF hits = {} THEN 0 ELSE Max(hits)

Find(s, c, start) == First({i \in start..Len(s) : SubSeq(s, i, i) = c})
RFind(s, c) == Last({i \in 1..Len(s) : SubSeq(s, i, i) = c})

Contains(s, c) == \E i \in 1..Len(s) : SubSeq(s, i, i) = c
Count(s, c) == Cardinality({i \in 1..Len(s) : SubSeq(s, i, i) = c})

StartsWith(s, pre) == Len(pre) <= Len(s) /\ SubSeq(s, 1, Len(pre)) = pre
EndsWith(s, suf) == Len(suf) <= Len(s) /\ SubSeq(s, Len(s) - Len(suf) + 1, Len(s)) = suf

\* s.lstrip(c), s.rstrip(c), s.strip(c) for a one-character c
LStrip(s, c) ==
    SubSeq(s, Min({i \in 1..(Len(s) + 1) : i > Len(s) \/ SubSeq(s, i, i) # c}), Len(s))
RStrip(s, c) == SubSeq(s, 1, Max({i \in 0..Len(s) : i = 0 \/ SubSeq(s, i, i) # c}))

Strip(s, c) == RStrip(LStrip(s, c), c)

\* s.replace(old, new), every occurrence from the left
RECURSIVE Replace(_, _, _)
Replace(s, old, new) ==
    IF Len(s) < Len(old) THEN s
    ELSE IF SubSeq(s, 1, Len(old)) = old
         THEN new \o Replace(SubSeq(s, Len(old) + 1, Len(s)), old, new)
         ELSE SubSeq(s, 1, 1) \o Replace(SubSeq(s, 2, Len(s)), old, new)

\* s.split(c): the pieces between the occurrences of c
RECURSIVE Split(_, _)
SplitAt(s, c, i) ==
    IF i = 0 THEN <<s>> ELSE <<SubSeq(s, 1, i - 1)>> \o Split(SubSeq(s, i + 1, Len(s)), c)

Split(s, c) == SplitAt(s, c, Find(s, c, 1))

LowerCase == "abcdefghijklmnopqrstuvwxyz"
UpperCase == "ABCDEFGHIJKLMNOPQRSTUVWXYZ"
DigitChars == "0123456789"

IsLetter(c) ==
    \E i \in 1..26 : c = SubSeq(LowerCase, i, i) \/ c = SubSeq(UpperCase, i, i)
IsDigit(c) == \E i \in 1..10 : c = SubSeq(DigitChars, i, i)

LowerAt(c, i) == IF i = 0 THEN c ELSE SubSeq(LowerCase, i, i)
LowerCh(c) == LowerAt(c, Find(UpperCase, c, 1))

\* s.lower()
RECURSIVE Lower(_)
Lower(s) ==
    IF s = "" THEN "" ELSE LowerCh(SubSeq(s, 1, 1)) \o Lower(SubSeq(s, 2, Len(s)))

\* os.path.basename(p) and os.path.dirname(p) (posixpath)
Basename(p) == SubSeq(p, RFind(p, "/") + 1, Len(p))

DirnameOf(head, stripped) == IF stripped # "" THEN stripped ELSE head
DirnameHead(head) == DirnameOf(head, RStrip(head, "/"))
Dirname(p) == DirnameHead(SubSeq(p, 1, RFind(p, "/")))

\* os.path.join(a, b) (posixpath), for the two-argument calls of the code
PathJoin(a, b) ==
    IF StartsWith(b, "/") THEN b
    ELSE IF a = "" \/ EndsWith(a, "/") THEN a \o b
    ELSE a \o "/" \o b

\* os.path.splitext(p)[1] (genericpath._splitext): the extension with its
\* dot; a name made of leading dots only has none.
SplitextAt(p, sepIndex, dotIndex) ==
    IF dotIndex > sepIndex
       /\ \E i \in (sepIndex + 1)..(dotIndex - 1) : SubSeq(p, i, i) # "."
    THEN SubSeq(p, dotIndex, Len(p))
    ELSE ""

SplitextExt(p) == SplitextAt(p, RFind(p, "/"), RFind(p, "."))

\* The %XX escapes of the characters the model's strings are made of.
HexOf(c) ==
    CASE c = "+" -> "2B" [] c = "%" -> "25" [] c = ";" -> "3B" [] c = "/" -> "2F"
      [] c = "#" -> "23" [] c = ":" -> "3A" [] c = "?" -> "3F" [] c = "=" -> "3D"
      [] c = "&" -> "26" [] c = "*" -> "2A" [] c = "@" -> "40" [] c = " " -> "20"
      [] OTHER -> ""

Escapable == "+%;/#:?=&*@ "

UnHex(h) == Ch(Escapable, First({i \in 1..Len(Escapable) : HexOf(SubSeq(Escapable, i, i)) = h}))

\* urllib.parse.unquote(s): every %XX becomes its character; a % that begins
\* no escape stays.
RECURSIVE Unquote(_)
UnquoteEscape(s, c) ==
    IF c # "" THEN c \o Unquote(SubSeq(s, 4, Len(s)))
    ELSE "%" \o Unquote(SubSeq(s, 2, Len(s)))

Unquote(s) ==
    IF s = "" THEN ""
    ELSE IF SubSeq(s, 1, 1) = "%" /\ Len(s) >= 3 THEN UnquoteEscape(s, UnHex(SubSeq(s, 2, 3)))
    ELSE SubSeq(s, 1, 1) \o Unquote(SubSeq(s, 2, Len(s)))

\* urllib.parse.unquote_plus(s): '+' becomes a space, then unquote
UnquotePlus(s) == Unquote(Replace(s, "+", " "))

\* urllib.parse.quote_plus(s): a space becomes '+', letters, digits and _.-~
\* stay, every other character becomes %XX.
RECURSIVE QuotePlus(_)
QuoteCh(c, hex) == IF c = " " THEN "+" ELSE IF hex # "" THEN "%" \o hex ELSE c

QuotePlus(s) ==
    IF s = "" THEN ""
    ELSE QuoteCh(SubSeq(s, 1, 1), HexOf(SubSeq(s, 1, 1))) \o QuotePlus(SubSeq(s, 2, Len(s)))

(***************************************************************************)
(* urllib.parse.urlparse, as parse_url_to_dict uses it.  Each step of the  *)
(* library's code is an operator that hands what it has cut off to the     *)
(* next.                                                                   *)
(***************************************************************************)
\* urllib.parse.scheme_chars
IsSchemeChar(c) == IsLetter(c) \/ IsDigit(c) \/ c \in {"+", "-", "."}

\* urllib.parse.uses_params
UsesParams == {"", "ftp", "hdl", "prospero", "http", "imap", "https", "shttp",
               "rtsp", "rtspu", "sip", "sips", "mms", "sftp", "tel"}

\* s cut at position at: what precedes it and what follows it; all of s and
\* nothing when at is 0.
CutAt(s, at) ==
    [head |-> IF at = 0 THEN s ELSE Upto(s, at - 1),
     tail |-> IF at = 0 THEN "" ELSE From(s, at + 1)]

\* urlsplit, last step: url, sep, query = url.partition('?')
SplitQuery(scheme, netloc, fragment, cut) ==
    [scheme |-> scheme, netloc |-> netloc, path |-> cut.head, query |-> cut.tail,
     fragment |-> fragment]

\* urlsplit: url, sep, fragment = url.partition('#')
SplitFragment(scheme, netloc, cut) ==
    SplitQuery(scheme, netloc, cut.tail, CutAt(cut.head, Find(cut.head, "?", 1)))

\* urlsplit: after '//' the netloc reaches to the first of / ? # (_splitnetloc)
NetlocEnd(url2) ==
    Min({j \in 1..(Len(url2) + 1) :
            j > Len(url2) \/ (j >= 3 /\ SubSeq(url2, j, j) \in {"/", "?", "#"})})

SplitAfterNetloc(scheme, netloc, url3) ==
    SplitFragment(scheme, netloc, CutAt(url3, Find(url3, "#", 1)))

SplitNetloc(scheme, url2, delim) ==
    SplitAfterNetloc(scheme,
                     IF Upto(url2, 2) = "//" THEN Slice(url2, 3, delim - 1) ELSE "",
                     IF Upto(url2, 2) = "//" THEN From(url2, delim) ELSE url2)

\* urlsplit: the scheme is what precedes the first ':' when it begins with a
\* letter and is made of scheme characters; 0 when there is none
SchemeEnd(url1, i) ==
    IF i > 1 /\ IsLetter(Ch(url1, 1)) /\ \A j \in 1..(i - 1) : IsSchemeChar(Ch(url1, j))
    THEN i ELSE 0

SplitAfterScheme(scheme, url2) == SplitNetloc(scheme, url2, NetlocEnd(url2))

SplitScheme(url1, i) ==
    SplitAfterScheme(IF i > 0 THEN Lower(Upto(url1, i - 1)) ELSE "",
                     IF i > 0 THEN From(url1, i + 1) ELSE url1)

UrlSplitStripped(url1) == SplitScheme(url1, SchemeEnd(url1, Find(url1, ":", 1)))

\* urlsplit(url)
UrlSplit(url0) == UrlSplitStripped(LStrip(url0, " "))

\* urllib.parse._splitparams: where the parameters are cut off the path, 0
\* when they are not.
SplitParamsAt(path) ==
    IF Contains(path, "/") THEN Find(path, ";", RFind(path, "/"))
                           ELSE Find(path, ";", 1)

SplitParams(sp, i) ==
    [scheme |-> sp.scheme, netloc |-> sp.netloc,
     path |-> IF i = 0 THEN sp.path ELSE Upto(sp.path, i - 1),
     params |-> IF i = 0 THEN "" ELSE From(sp.path, i + 1),
     query |-> sp.query, fragment |-> sp.fragment]

UrlParseSplit(sp) ==
    SplitParams(sp, IF sp.scheme \in UsesParams THEN SplitParamsAt(sp.path) ELSE 0)

\* urlparse: urlsplit, then the ;parameters of the last path segment.
UrlParse(url0) == UrlParseSplit(UrlSplit(url0))

\* The netloc's parts (_NetlocResultMixinStr._userinfo, ._hostinfo, .port),
\* for hosts that are no bracketed IPv6 address.
SplitUserinfo(userinfo, colon) ==
    IF colon = 0 THEN [username |-> userinfo, password |-> None]
    ELSE [username |-> Upto(userinfo, colon - 1), password |-> From(userinfo, colon + 1)]

Userinfo(userinfo) == SplitUserinfo(userinfo, Find(userinfo, ":", 1))

UserinfoBefore(netloc, at) ==
    IF at = 0 THEN [username |-> None, password |-> None]
    ELSE Userinfo(Upto(netloc, at - 1))

NetlocUserinfo(netloc) == UserinfoBefore(netloc, RFind(netloc, "@"))

\* .port: the digits after the host's first ':', None when there are none,
\* ValueError when they are no number. (The model keeps the port as its
\* digits; its ports have no leading zero.)
PortOf(port) ==
    IF port = "" THEN None
    ELSE IF \A j \in 1..Len(port) : IsDigit(Ch(port, j)) THEN port
    ELSE ValueError

HostinfoPort(hostinfo) == PortOf(CutAt(hostinfo, Find(hostinfo, ":", 1)).tail)

NetlocPort(netloc) == HostinfoPort(From(netloc, RFind(netloc, "@") + 1))

(***************************************************************************)
(* util.py: parse_url_to_dict, unparse_url_dict, reparse_url.              *)
(* The model's locators begin with no drive letter (the branch of line 95  *)
(* is not taken).                                                          *)
(***************************************************************************)
RaisedParts(e) ==
    [exc |-> e, scheme |-> None, scheme_extension |-> None, netloc |-> None,
     path |-> None, params |-> None, query |-> None, fragment |-> None,
     username |-> None, password |-> None, port |-> None]

\* scheme_extension, scheme = p.scheme.split('+') when '+' is in the scheme
SchemePieces(scheme, pieces) ==
    IF Len(pieces) = 1 THEN [exc |-> "", ext |-> None, scheme |-> scheme]
    ELSE IF Len(pieces) = 2 THEN [exc |-> "", ext |-> pieces[1], scheme |-> pieces[2]]
    ELSE [exc |-> "ValueError", ext |-> None, scheme |-> None]

SchemeSplit(scheme) == SchemePieces(scheme, Split(scheme, "+"))

\* 'fragment': unquote_plus(p.fragment) if p.fragment else None
ParseFragment(fragment) == IF fragment = "" THEN None ELSE UnquotePlus(fragment)

\* The dict parse_url_to_dict returns (117-129), or the exception raised
PartsDict(p, sch, ui, port) ==
    IF sch.exc # "" THEN RaisedParts(sch.exc)
    ELSE IF port = ValueError THEN RaisedParts("ValueError")
    ELSE [exc |-> "",
          scheme |-> IF sch.scheme = "" THEN "file" ELSE sch.scheme,
          scheme_extension |-> sch.ext,
          netloc |-> p.netloc,
          path |-> p.path,
          params |-> p.params,
          query |-> p.query,
          fragment |-> ParseFragment(p.fragment),
          username |-> ui.username,
          password |-> ui.password,
          port |-> port]

ParsedToDict(p) ==
    PartsDict(p, SchemeSplit(p.scheme), NetlocUserinfo(p.netloc), NetlocPort(p.netloc))

parse_url_to_dict(url0) == ParsedToDict(UrlParse(url0))

\* host_port of unparse_url_dict (140-156): the netloc, then ':' and the port,
\* then user:password@ in front, each when set.
HostWithPort(d) ==
    (IF Truthy(d.netloc) THEN d.netloc ELSE "")
    \o (IF Truthy(d.port) /\ d.port # "0" THEN ":" \o d.port ELSE "")

UserPass(d) ==
    (IF Truthy(d.username) THEN d.username ELSE "")
    \o (IF Truthy(d.password) THEN ":" \o d.password ELSE "")

WithUserPass(user_pass, host_port) ==
    IF user_pass # "" THEN user_pass \o "@" \o host_port ELSE host_port

HostPort(d) == WithUserPass(UserPass(d), HostWithPort(d))

\* 'fragment': '#' + quote_plus(d['fragment']) when set (178-179)
UnparseFragment(fragment) == IF Truthy(fragment) THEN "#" \o QuotePlus(fragment) ELSE ""

\* The scheme, host and path of unparse_url_dict (158-170)
UnparseStripped(d, host_port, stripped) ==
    IF Truthy(d.scheme) /\ host_port # ""
    THEN d.scheme \o "://" \o host_port \o "/" \o stripped
    ELSE IF d.scheme \in {"mailto", "file"}
    THEN d.scheme \o ":" \o d.path
    ELSE IF Truthy(d.scheme)
    THEN d.scheme \o "://" \o stripped
    ELSE IF Truthy(d.path)
    THEN "file:" \o stripped
    ELSE ""

UnparseBase(d, host_port) == UnparseStripped(d, host_port, LStrip(d.path, "/"))

\* unparse_url_dict(d, **kwargs), with the keyword overrides already put into d
unparse_url_dict(d) ==
    (IF Truthy(d.scheme_extension) THEN d.scheme_extension \o "+" ELSE "")
    \o UnparseBase(d, HostPort(d))
    \o (IF Truthy(d.query) THEN "?" \o d.query ELSE "")
    \o UnparseFragment(d.fragment)

\* unparse_url_dict of what parse_url_to_dict returned, or its exception
UnparseParsed(d) == IF d.exc # "" THEN ValueError ELSE unparse_url_dict(d)

\* reparse_url(url): the string, or the exception parse_url_to_dict raises
reparse_url(url0) == UnparseParsed(parse_url_to_dict(url0))

\* reparse_url(url, query=None)
UnparseNoQuery(d) ==
    IF d.exc # "" THEN ValueError ELSE unparse_url_dict([d EXCEPT !.query = None])

reparse_url_no_query(url0) == UnparseNoQuery(parse_url_to_dict(url0))

\* reparse_url(url, fragment=f)
UnparseWithFragment(d, f) ==
    IF d.exc # "" THEN ValueError ELSE unparse_url_dict([d EXCEPT !.fragment = f])

reparse_url_fragment(url0, f) == UnparseWithFragment(parse_url_to_dict(url0), f)

(***************************************************************************)
(* urls.py: the locator variants.  A descriptor is a record of the         *)
(* object's attributes; cls is its class, exc the exception its            *)
(* construction raised ("" for none), init whether __init__ ran.           *)
(***************************************************************************)
\* file_ext(v): the lower-cased extension without its dot, or None
ExtOf(e) == IF e = "*" \/ e = "" THEN None ELSE Lower(e)

file_ext(v) == ExtOf(From(SplitextExt(v), 2))

\* extract_proto(url), given the parts of the url
ProtoOf(ps) ==
    IF Truthy(ps.scheme_extension) THEN ps.scheme_extension
    ELSE IF ps.scheme = "https" THEN "http"
    ELSE IF ps.scheme = "" THEN "file"
    ELSE ps.scheme

extract_proto(url0) == ProtoOf(parse_url_to_dict(url0))

\* A keyword the caller did not pass.
Absent == "<absent>"

\* The keyword arguments of Url(url, **kwargs).
NoKwargs ==
    [scheme |-> Absent, proto |-> None, resource_url |-> None, resource_file |-> None,
     resource_format |-> None, target_file |-> None, target_format |-> None,
     encoding |-> None, target_segment |-> None, force_archive |-> FALSE]

\* url_handlers, in order, and each handler's match(url, **kwargs)
url_handlers ==
    <<"NotebootUrl", "ProgramUrl", "MetatabPackageUrl", "CkanUrl", "SocrataUrl",
      "GoogleProtoCsvUrl", "ZipUrl", "ExcelUrl", "S3Url", "ApplicationUrl", "GeneralUrl">>

Match(h, ps, kw) ==
    CASE h = "NotebootUrl"       -> ProtoOf(ps) = "ipynb"
      [] h = "ProgramUrl"        -> ProtoOf(ps) = "program"
      [] h = "MetatabPackageUrl" -> ProtoOf(ps) = "metatab"
      [] h = "CkanUrl"           -> ProtoOf(ps) = "ckan"
      [] h = "SocrataUrl"        -> ProtoOf(ps) = "socrata"
      [] h = "GoogleProtoCsvUrl" -> ProtoOf(ps) = "gs"
      [] h = "ZipUrl"            -> file_ext(ps.path) = "zip" \/ kw.force_archive
      [] h = "ExcelUrl"          -> file_ext(ps.path) \in {"xls", "xlsx"}
      [] h = "S3Url"             -> ProtoOf(ps) = "s3"
      [] h = "ApplicationUrl"    -> ProtoOf(ps) \notin {"file", "ftp", "http", "https"}
      [] OTHER                         -> TRUE

\* get_handler(url, **kwargs): the first handler that matches; the first
\* match parses the url, and what that raises get_handler raises.
FirstMatch(ps, kw) ==
    IF ps.exc # "" THEN ValueError
    ELSE url_handlers[Min({i \in 1..Len(url_handlers) : Match(url_handlers[i], ps, kw)})]

get_handler(url0, kw) == FirstMatch(parse_url_to_dict(url0), kw)

\* issubclass(c, t) among the handlers
IsSubclass(c, t) == c = t \/ (c = "ApplicationUrl" /\ t = "GeneralUrl")

\* An object on which __init__ did not run, or whose construction raised e.
Bare(c, e) ==
    [cls |-> c, init |-> FALSE, exc |-> e, url |-> None, parts |-> RaisedParts(e),
     scheme |-> None, proto |-> None, resource_url |-> None, resource_file |-> None,
     resource_format |-> None, target_file |-> None, target_format |-> None,
     encoding |-> None, target_segment |-> None]

Raised(o, e) == Bare(o.cls, e)

\* What each variant's __init__ puts into kwargs before Url.__init__.
ClassKwargs(c, kw) ==
    CASE c = "GoogleProtoCsvUrl" ->
            [kw EXCEPT !.resource_format = "csv", !.encoding = "utf8", !.proto = "gs"]
      [] c = "SocrataUrl" ->
            [kw EXCEPT !.resource_format = "csv", !.encoding = "utf8", !.proto = "socrata"]
      [] c = "CkanUrl"           -> [kw EXCEPT !.proto = "ckan"]
      [] c = "ZipUrl"            -> [kw EXCEPT !.resource_format = "zip"]
      [] c = "S3Url"             -> [kw EXCEPT !.proto = "s3"]
      [] c = "MetatabPackageUrl" -> [kw EXCEPT !.proto = "metatab"]
      [] c = "ProgramUrl"        -> [kw EXCEPT !.proto = "program"]
      [] c = "NotebootUrl"       -> [kw EXCEPT !.proto = "ipynb"]
      [] OTHER                   -> kw

\* Url.url_parts(url, **kwargs): the parts, updated from kwargs (of the keys
\* the code reads afterwards only scheme can be overridden)
PartsUpdated(ps, kw) ==
    IF ps.exc # "" \/ kw.scheme = Absent THEN ps ELSE [ps EXCEPT !.scheme = kw.scheme]

url_parts(url0, kw) == PartsUpdated(parse_url_to_dict(url0), kw)

\* _extract_parts: self.url and self.parts.  ProgramUrl and NotebootUrl put
\* their protocol into the scheme extension and turn their scheme into file.
TaggedUrl(tag, ps0, ps) ==
    IF ps0.exc # "" THEN ValueError
    ELSE unparse_url_dict([ps EXCEPT
                              !.scheme = IF ps0.scheme # tag THEN ps0.scheme ELSE "file",
                              !.scheme_extension = tag])

\* ps is parse_url_to_dict(url), which reparse_url, url_parts and
\* parse_url_to_dict each compute from the same url
ExtractFrom(c, ps, kw) ==
    IF c \in {"ProgramUrl", "NotebootUrl"}
    THEN TaggedUrl(IF c = "ProgramUrl" THEN "program" ELSE "ipynb", PartsUpdated(ps, kw), ps)
    ELSE UnparseParsed(ps)

ExtractUrl(c, url0, kw) == ExtractFrom(c, parse_url_to_dict(url0), kw)

\* Url._assign_args, after _extract_parts
AssignArgs(c, u, ps, kw) ==
    [cls |-> c, init |-> TRUE, exc |-> "", url |-> u, parts |-> ps,
     scheme |-> IF kw.scheme = Absent THEN ps.scheme ELSE kw.scheme,
     proto |-> kw.proto,
     resource_url |-> kw.resource_url,
     resource_file |-> kw.resource_file,
     resource_format |-> kw.resource_format,
     target_file |-> kw.target_file,
     target_format |-> IF Truthy(kw.target_format) THEN Lower(kw.target_format)
                                                   ELSE kw.target_format,
     encoding |-> kw.encoding,
     target_segment |-> kw.target_segment]

\* Url._process_proto
WithProto(o, ps) ==
    IF ps.exc # "" THEN Raised(o, ps.exc) ELSE [o EXCEPT !.proto = ProtoOf(ps)]

ProcessProto(o) ==
    IF o.exc # "" \/ Truthy(o.proto) THEN o ELSE WithProto(o, parse_url_to_dict(o.url))

\* Url.is_archive
is_archive(o) == o.resource_format \in {"zip"}

\* Url.archive_file()
archive_file(o) ==
    IF is_archive(o) /\ o.resource_file # o.target_file THEN o.target_file ELSE None

\* Url.decompose_fragment(frag, is_archive)
FragmentParts(frag_parts, archive) ==
    IF archive
    THEN IF Len(frag_parts) = 2
         THEN [file |-> frag_parts[1], segment |-> frag_parts[2]]
         ELSE [file |-> frag_parts[1], segment |-> None]
    ELSE [file |-> None, segment |-> frag_parts[1]]

decompose_fragment(frag, archive) == FragmentParts(Split(UnquotePlus(frag), ";"), archive)

\* Url._process_fragment
BaseWithFragment(o, fs) ==
    [o EXCEPT !.target_segment = fs.segment,
              !.target_file = IF Falsy(o.target_file) /\ Truthy(fs.file)
                              THEN fs.file ELSE o.target_file]

BaseProcessFragment(o) ==
    IF Truthy(o.parts.fragment)
    THEN BaseWithFragment(o, decompose_fragment(o.parts.fragment, is_archive(o)))
    ELSE [o EXCEPT !.target_segment = None]

\* ZipUrl._process_fragment
ZipWithFragment(o, fs) == [o EXCEPT !.target_file = fs.file, !.target_segment = fs.segment]

ZipProcessFragment(o) ==
    IF Truthy(o.parts.fragment)
    THEN ZipWithFragment(o, decompose_fragment(o.parts.fragment, is_archive(o)))
    ELSE [o EXCEPT !.target_file = None, !.target_segment = None]

\* _process_fragment of the object's class
ProcessFragment(o) ==
    IF o.exc # "" THEN o
    ELSE CASE o.cls = "ZipUrl" -> ZipProcessFragment(o)
           [] o.cls \in {"MetatabPackageUrl", "NotebootUrl"} ->
                 [o EXCEPT !.target_segment = o.parts.fragment]
           [] OTHER -> BaseProcessFragment(o)

\* unparse_url_dict(self.parts.__dict__, scheme=..., scheme_extension=False,
\* fragment=False)
ResourceUrlOf(ps, scheme) ==
    unparse_url_dict([ps EXCEPT !.scheme = scheme, !.scheme_extension = None,
                                !.fragment = None])

SchemeOrFile(ps) == IF Truthy(ps.scheme) THEN ps.scheme ELSE "file"

\* if not self.resource_format: self.resource_format = file_ext(self.resource_file)
WithResourceFile(o, ru, rf) ==
    [o EXCEPT !.resource_url = ru, !.resource_file = rf,
              !.resource_format = IF Falsy(o.resource_format) THEN file_ext(rf)
                                                              ELSE o.resource_format]

\* Url._process_resource_url
BaseWithResourceUrl(o, ru, rq) ==
    IF IsExc(rq) THEN Raised(o, "ValueError") ELSE WithResourceFile(o, ru, Basename(rq))

BaseResourceFile(o, ru) == BaseWithResourceUrl(o, ru, reparse_url_no_query(ru))

BaseProcessResourceUrl(o) == BaseResourceFile(o, ResourceUrlOf(o.parts, SchemeOrFile(o.parts)))

\* GoogleProtoCsvUrl._process_resource_url
TargetIsResourceFile(o) == [o EXCEPT !.target_file = o.resource_file]

GoogleExport(o1, ru, rf, seg) ==
    IF Truthy(seg)
    THEN WithResourceFile(o1, ru \o "&gid=" \o seg, rf \o "-" \o seg \o ".csv")
    ELSE WithResourceFile(o1, ru, rf \o ".csv")

GoogleWithSegment(o1) ==
    TargetIsResourceFile(
        GoogleExport(o1,
                     "https://docs.google.com/spreadsheets/d/" \o o1.parts.netloc
                         \o "/export?format=csv",
                     o1.parts.netloc, o1.target_segment))

GoogleProcessResourceUrl(o) == GoogleWithSegment(BaseProcessFragment(o))

\* SocrataUrl._process_resource_url
SocrataProcessResourceUrl(o) ==
    TargetIsResourceFile(
        WithResourceFile(o,
                         unparse_url_dict([o.parts EXCEPT
                                              !.scheme_extension = None,
                                              !.fragment = None,
                                              !.path = PathJoin(o.parts.path, "rows.csv")]),
                         Basename(o.url) \o ".csv"))

\* S3Url._process_resource_url
ResourceFileIsBasename(o, ru) == WithResourceFile(o, ru, Basename(ru))

S3ProcessResourceUrl(o) ==
    ResourceFileIsBasename(o, "https://s3.amazonaws.com/" \o o.parts.netloc \o "/"
                              \o Strip(o.parts.path, "/"))

\* MetatabPackageUrl._process_resource_url
MetatabPackage(o, ru, fmt) ==
    IF fmt \in {"zip", "xlsx", "csv"}
    THEN [o EXCEPT !.resource_url = ru,
                   !.resource_file = Basename(ru),
                   !.resource_format = fmt,
                   !.target_file = CASE fmt = "xlsx" -> "meta"
                                     [] fmt = "zip"  -> "metadata.csv"
                                     [] OTHER        -> Basename(ru),
                   !.target_format = "metatab"]
    ELSE [o EXCEPT !.resource_url = ru \o "/metadata.csv",
                   !.resource_file = "metadata.csv",
                   !.resource_format = "csv",
                   !.target_file = "metadata.csv",
                   !.target_format = "metatab"]

MetatabResource(o, ru) == MetatabPackage(o, ru, file_ext(ru))

MetatabProcessResourceUrl(o) ==
    MetatabResource(o, unparse_url_dict([o.parts EXCEPT !.scheme_extension = None,
                                                        !.fragment = None]))

\* ProgramUrl._process_resource_url
ProgramProcessResourceUrl(o) ==
    ResourceFileIsBasename(o, ResourceUrlOf(o.parts, SchemeOrFile(o.parts)))

\* NotebootUrl._process_resource_url
NotebookProcessResourceUrl(o) ==
    ResourceFileIsBasename(o, Strip(ResourceUrlOf(o.parts, IF o.parts.scheme # "ipynb"
                                                           THEN o.parts.scheme
                                                           ELSE "file"), "/"))

\* _process_resource_url of the object's class
ProcessResourceUrl(o) ==
    IF o.exc # "" THEN o
    ELSE CASE o.cls = "GoogleProtoCsvUrl" -> GoogleProcessResourceUrl(o)
           [] o.cls = "SocrataUrl"        -> SocrataProcessResourceUrl(o)
           [] o.cls = "S3Url"             -> S3ProcessResourceUrl(o)
           [] o.cls = "MetatabPackageUrl" -> MetatabProcessResourceUrl(o)
           [] o.cls = "ProgramUrl"        -> ProgramProcessResourceUrl(o)
           [] o.cls = "NotebootUrl"       -> NotebookProcessResourceUrl(o)
           [] OTHER                       -> BaseProcessResourceUrl(o)

\* A target format taken from the target file alone
TargetFormatFromFile(o, tf) ==
    IF Truthy(o.target_format) THEN o.target_format ELSE file_ext(tf)

\* if not self.target_format: file_ext(self.target_file); if still not:
\* self.resource_format  (Url._process_target_file, 130-134)
DefaultTargetFormat(o, tf) ==
    IF Truthy(o.target_format) THEN o.target_format
    ELSE IF Truthy(file_ext(tf)) THEN file_ext(tf)
    ELSE o.resource_format

\* Url._process_target_file
WithTargetFile(o, tf) ==
    [o EXCEPT !.target_file = tf, !.target_format = DefaultTargetFormat(o, tf)]

TargetFromResource(o, rq) ==
    IF IsExc(rq) THEN Raised(o, "ValueError") ELSE WithTargetFile(o, Basename(rq))

BaseProcessTargetFile(o) ==
    IF Falsy(o.target_file) THEN TargetFromResource(o, reparse_url_no_query(o.resource_url))
    ELSE WithTargetFile(o, o.target_file)

\* ZipUrl._process_target_file: file.csv.zip names its inner file
ZipAliasTarget(o) ==
    IF \E e \in {"csv", "xls", "xlsx"} : EndsWith(o.resource_file, "." \o e \o ".zip")
    THEN Replace(o.resource_file, ".zip", "")
    ELSE o.target_file

ZipTargetFormat(o, tf) ==
    IF Truthy(tf) /\ Falsy(o.target_format) THEN file_ext(tf) ELSE o.target_format

ZipWithTarget(o, tf) ==
    [o EXCEPT !.target_file = tf, !.target_format = ZipTargetFormat(o, tf)]

ZipProcessTargetFile(o) == ZipWithTarget(o, ZipAliasTarget(o))

\* NotebootUrl._process_target_file: assert self.target_format == 'ipynb'
NotebookProcessTargetFile(o1) ==
    IF o1.exc = "" /\ o1.target_format # "ipynb" THEN Raised(o1, "AssertionError") ELSE o1

\* What a subclass adds after super()._process_target_file()
SuperProcessTargetFile(o1) ==
    IF o1.cls = "NotebootUrl" THEN NotebookProcessTargetFile(o1) ELSE o1

\* _process_target_file of the object's class
ProcessTargetFile(o) ==
    IF o.exc # "" THEN o
    ELSE IF o.cls = "ZipUrl" THEN ZipProcessTargetFile(o)
    ELSE SuperProcessTargetFile(BaseProcessTargetFile(o))

\* Url._process
Process(o) == ProcessTargetFile(ProcessFragment(ProcessResourceUrl(ProcessProto(o))))

\* handler.__init__(url, **kwargs), Url.__init__ included
InitWithParts(c, u, ps, kw) ==
    IF ps.exc # "" THEN Bare(c, ps.exc) ELSE Process(AssignArgs(c, u, ps, kw))

InitWithUrl(c, u, kw) ==
    InitWithParts(c, u, IF IsExc(u) THEN RaisedParts("ValueError") ELSE url_parts(u, kw), kw)

InitWithKwargs(c, url0, kw) == InitWithUrl(c, ExtractUrl(c, url0, kw), kw)

UrlInit(c, url0, kw0) == InitWithKwargs(c, url0, ClassKwargs(c, kw0))

\* Url(url, **kwargs): __new__ picks the handler, whose __init__ then runs
UrlNew(c, url0, kw) ==
    IF IsExc(c) THEN Bare("Url", "ValueError") ELSE UrlInit(c, url0, kw)

Url(url0, kw) == UrlNew(get_handler(url0, kw), url0, kw)

\* The fragment rebuild_url writes: target file, ';', target segment
RebuildFragment(tf, ts) ==
    (IF Truthy(tf) THEN tf ELSE "")
    \o (IF Truthy(ts) THEN (IF Truthy(tf) THEN ";" ELSE "") \o ts ELSE "")

\* Url.rebuild_url(target_file, target_segment) and ExcelUrl.rebuild_url
RebuildWith(o, tf, ts) ==
    reparse_url_fragment(o.url, IF o.cls = "ExcelUrl" THEN ts ELSE RebuildFragment(tf, ts))

rebuild_url(o, target_file, target_segment) ==
    RebuildWith(o,
                IF Truthy(target_file) THEN target_file ELSE archive_file(o),
                IF Truthy(target_segment) THEN target_segment ELSE o.target_segment)

\* The keywords update passes on: each the override, or the object's own value
UpdateKwargs(o, ov) ==
    LET pick(val, own) == IF val = Absent THEN own ELSE val
    IN  [scheme |-> pick(ov.scheme, o.scheme),
         proto |-> pick(ov.proto, o.proto),
         resource_url |-> pick(ov.resource_url, o.resource_url),
         resource_file |-> pick(ov.resource_file, o.resource_file),
         resource_format |-> pick(ov.resource_format, o.resource_format),
         target_file |-> pick(ov.target_file, o.target_file),
         target_format |-> pick(ov.target_format, o.target_format),
         encoding |-> pick(ov.encoding, o.encoding),
         target_segment |-> pick(ov.target_segment, o.target_segment),
         force_archive |-> FALSE]

\* update() with no overrides
NoOverrides ==
    [scheme |-> Absent, proto |-> Absent, resource_url |-> Absent,
     resource_file |-> Absent, resource_format |-> Absent, target_file |-> Absent,
     target_format |-> Absent, encoding |-> Absent, target_segment |-> Absent]

\* Url.update(), its keyword arguments in ov
UpdateFromUrl(u, kw) ==
    ProcessTargetFile(ProcessFragment(ProcessResourceUrl(
        IF IsExc(u) THEN Bare("Url", "ValueError") ELSE Url(u, kw))))

UpdateWith(o, kw) == UpdateFromUrl(rebuild_url(o, kw.target_file, kw.target_segment), kw)

update(o, ov) ==
    IF ~o.init THEN Raised(o, "AttributeError") ELSE UpdateWith(o, UpdateKwargs(o, ov))

\* Url.__deepcopy__: type(self)(self.url, **d) with d the attributes but url.
\* __new__ picks the handler anew; __init__ runs only on an instance of
\* type(self).
CopyAs(c, o, kw) ==
    IF IsExc(c) THEN Bare(o.cls, "ValueError")
    ELSE IF IsSubclass(c, o.cls) THEN UrlInit(c, o.url, kw)
    ELSE Bare(c, "")

CopyWith(o, kw) == CopyAs(get_handler(o.url, kw), o, kw)

deepcopy(o) == IF ~o.init THEN Raised(o, "KeyError") ELSE CopyWith(o, UpdateKwargs(o, NoOverrides))


\* GeneralUrl.auth_resource_url (347-355) and S3Url.auth_resource_url
\* (550-552); no other variant has the property
PathAsS3(ps) == IF ps.exc # "" THEN ValueError ELSE "s3://" \o ps.path

auth_resource_url(o) ==
    CASE o.cls = "S3Url" -> "s3://" \o o.parts.netloc \o "/" \o Strip(o.parts.path, "/")
      [] o.cls \in {"GeneralUrl", "ApplicationUrl"} ->
            PathAsS3(parse_url_to_dict(o.resource_url))
      [] OTHER -> "<AttributeError>"
(***************************************************************************)
(* fetch.py: inspect and enumerate_contents.  The resource behind a        *)
(* descriptor is a record: kind "zip" with entries (name, external_attr as *)
(* its upper and lower 16 bits, and the sheets of an entry that is a       *)
(* workbook), kind "xlsx" with sheets, or kind "csv".                      *)
(***************************************************************************)
\* re.search(pat, s) for the patterns file names make: '.' is any character,
\* 'x+' one or more x, every other character itself.  (Names here hold no
\* other metacharacter and no '+' after a '+' or at the start.)
RECURSIVE ReMatchHere(_, _)
ReMatchHere(pat, s) ==
    IF pat = "" THEN TRUE
    ELSE LET one(t) == t # "" /\ (Ch(pat, 1) = "." \/ Ch(pat, 1) = Ch(t, 1))
         IN  IF Ch(pat, 2) = "+"
             THEN \E n \in 1..Len(s) :
                     /\ \A i \in 1..n : one(From(s, i))
                     /\ ReMatchHere(From(pat, 3), From(s, n + 1))
             ELSE one(s) /\ ReMatchHere(From(pat, 2), From(s, 2))

ReSearch(pat, s) == \E i \in 1..(Len(s) + 1) : ReMatchHere(pat, From(s, i))

\* What inspect and get_generator return or raise
Fail(e) == [exc |-> e, list |-> <<>>]

\* The descriptors of a list, or the exception the first failing one raised
Collect(l) ==
    IF \E i \in 1..Len(l) : l[i].exc # ""
    THEN Fail(l[Min({i \in 1..Len(l) : l[i].exc # ""})].exc)
    ELSE [exc |-> "", list |-> l]

\* e.external_attr >> 31 & 1 or e.external_attr == 0 or e.external_attr == 32
AttrSaysFile(e) ==
    \/ (e.hi \div 32768) % 2 = 1
    \/ (e.hi = 0 /\ e.lo = 0)
    \/ (e.hi = 0 /\ e.lo = 32)

\* real_files_in_zf(zf): the names it yields, in the order of zf.infolist()
Yielded(e) ==
    /\ ~StartsWith(Basename(e.name), "__")
    /\ ~StartsWith(Basename(e.name), ".")
    /\ AttrSaysFile(e)

FileNamesOf(kept) == [i \in 1..Len(kept) |-> kept[i].name]

real_files_in_zf(entries) == FileNamesOf(SelectSeq(entries, Yielded))

\* [e for e in nl if re.search(spec.target_file, e) and not
\*  (e.startswith('__') or e.startswith('.'))]  (fetch.py 62-64 and 120-122)
NamedEntries(entries, target_file) ==
    LET hit(e) == /\ ReSearch(target_file, e.name)
                  /\ ~StartsWith(e.name, "__") /\ ~StartsWith(e.name, ".")
    IN  SelectSeq(entries, hit)

\* int(spec.target_segment) for a string of digits, -1 when int() raises
\* ValueError.  (Segments here are names or digits, never signed or padded.)
RECURSIVE IntOf(_)
IntOf(s) ==
    IF s = "" THEN 0
    ELSE 10 * IntOf(Upto(s, Len(s) - 1))
         + (CHOOSE n \in 0..9 : Ch(DigitChars, n + 1) = Ch(s, Len(s)))

SegmentIndex(s) ==
    IF s # "" /\ \A i \in 1..Len(s) : IsDigit(Ch(s, i)) THEN IntOf(s) ELSE -1

\* nl[0] of an archive without entries
IndexError == "<IndexError>"

\* get_file_from_zip(d, spec): the entry name, or the exception raised
FileFromZip(entries, names, n) ==
    IF names # <<>> THEN names[1].name
    ELSE IF n >= 0 /\ n < Len(entries) THEN entries[n + 1].name
    ELSE IF entries = <<>> THEN IndexError
    ELSE entries[1].name

get_file_from_zip(entries, spec) ==
    FileFromZip(entries,
                IF Truthy(spec.target_file) THEN NamedEntries(entries, spec.target_file)
                                            ELSE <<>>,
                IF Truthy(spec.target_segment) THEN SegmentIndex(spec.target_segment) ELSE -1)

\* The sheet names ExcelSource(spec, df).children reads from the file df
\* opens (get_generator's _open, 112-161): the first entry of the archive
\* that spec.target_file names, or the resource itself.
SheetsOfFirst(named) ==
    IF named = <<>> THEN Fail("SourceError")
    ELSE IF named[1].book THEN [exc |-> "", list |-> named[1].sheets]
    ELSE Fail("XLRDError")

Workbook(spec, w) ==
    IF is_archive(spec)
    THEN IF Falsy(spec.target_file) THEN Fail("TypeError")
         ELSE SheetsOfFirst(NamedEntries(w.entries, spec.target_file))
    ELSE IF w.kind = "xlsx" THEN [exc |-> "", list |-> w.sheets]
    ELSE Fail("XLRDError")

\* get_generator(spec, cache_fs).children, as inspect uses it
ExcelChildren(spec1, w) ==
    IF spec1.exc # "" THEN Fail(spec1.exc)
    ELSE IF spec1.target_format \notin {"xls", "xlsx"} THEN Fail("SourceError")
    ELSE Workbook(spec1, w)

ZipChildren(spec, name, w) ==
    IF name = IndexError THEN Fail("IndexError")
    ELSE ExcelChildren(update(spec, [NoOverrides EXCEPT !.target_file = name]), w)

Children(spec, w) ==
    IF spec.resource_format = "zip"
    THEN IF w.kind # "zip" THEN Fail("BadZipFile")
         ELSE ZipChildren(spec, get_file_from_zip(w.entries, spec), w)
    ELSE ExcelChildren(spec, w)

\* inspect(ss, cache_fs): the list it returns, or the exception it raises
PerFile(ss, names) ==
    Collect([i \in 1..Len(names) |->
                update(ss, [NoOverrides EXCEPT !.target_file = names[i]])])

PerSegment(ss, segs) ==
    IF segs.exc # "" THEN Fail(segs.exc)
    ELSE Collect([i \in 1..Len(segs.list) |->
                     update(ss, [NoOverrides EXCEPT !.target_segment = segs.list[i]])])

inspect(ss, w) ==
    IF ~ss.init THEN Fail("AttributeError")
    ELSE IF is_archive(ss) /\ ss.target_file = None
    THEN IF w.kind # "zip" THEN Fail("BadZipFile")
         ELSE PerFile(ss, real_files_in_zf(w.entries))
    ELSE IF ss.target_format \in {"xls", "xlsx"} /\ ss.target_segment = None
    THEN PerSegment(ss, Children(ss, w))
    ELSE Collect(<<deepcopy(ss)>>)

\* list(enumerate_contents(base_spec, cache_fs)): what the generator yields
\* before it ends or raises
Yield(r, rest) == [exc |-> rest.exc, list |-> r.list \o rest.list]

RECURSIVE Flatten(_, _, _)
YieldFrom(r, firsts, w, i) ==
    IF r.exc # "" THEN r ELSE Yield(r, Flatten(firsts, w, i + 1))

Flatten(firsts, w, i) ==
    IF i > Len(firsts) THEN [exc |-> "", list |-> <<>>]
    ELSE YieldFrom(inspect(firsts[i], w), firsts, w, i)

\* The second pass over what the first pass returned
EnumerateFrom(first, w) == IF first.exc # "" THEN first ELSE Flatten(first.list, w, 1)

enumerate_contents(base_spec, w) == EnumerateFrom(inspect(base_spec, w), w)

(***************************************************************************)
(* The variables of SpecResolve and SpecInspect before any operation.      *)
(***************************************************************************)
Unset == "<unset>"
NoDescriptor == Bare(Unset, "")
NoParts == RaisedParts(Unset)
NoList == Fail(Unset)
NoFetch == [exc |-> Unset]

ResolveUnset ==
    /\ parsed = NoParts
    /\ unparsed = Unset
    /\ reparsed = NoParts
    /\ handler = Unset
    /\ desc = NoDescriptor
    /\ rebuilt = Unset
    /\ again = NoDescriptor
    /\ given = Unset
    /\ updated = NoDescriptor

ResolveIdle ==
    /\ locator = Unset
    /\ kwargs = NoKwargs
    /\ upc = "idle"
    /\ ResolveUnset

InspectUnset ==
    /\ fetched = {}
    /\ found = NoList
    /\ second = NoList
    /\ leaves = NoList
    /\ leafIx = 0
    /\ third = NoList
    /\ got = NoFetch

InspectIdle ==
    /\ subject = NoDescriptor
    /\ resource = [kind |-> Unset, entries |-> <<>>, sheets |-> <<>>]
    /\ ipc = "idle"
    /\ InspectUnset

\* for i in range(10): the alternate directories dn+str(i) download tries
NAlt == 10

Procs == 1..NProc
NoProc == 0
\* Cache path 0 is os.path.join(netloc, path); path i+1 is join(dn+str(i), bn).
Paths == 0..NAlt
OrigPath == 0
AltPath(i) == i + 1

NoRet == [path |-> -1, time |-> "unset"]

\* hashlib.sha224(query).hexdigest(): the digest stands as a name made of the
\* query, one digest per query.
Sha224(q) == "sha224(" \o q \o ")"

\* A cache path that leaves the query out
CachePathNoHash(ps) == PathJoin(ps.netloc, Strip(ps.path, "/"))

\* cache_path = os.path.join(parsed.netloc, parsed.path.strip('/')), and with
\* a query os.path.join(cache_path, hash) (265-270): the string OrigPath is
CachePathOf(ps) ==
    IF ps.query # ""
    THEN PathJoin(PathJoin(ps.netloc, Strip(ps.path, "/")), Sha224(ps.query))
    ELSE PathJoin(ps.netloc, Strip(ps.path, "/"))

cache_path(url) == CachePathOf(UrlParse(url))

(***************************************************************************)
(* The filesystem interface download uses (cache_fs).                      *)
(***************************************************************************)
\* cache_fs.exists(cache_path): a file below something that is no directory
\* does not exist.
Exists(c, d, k) == d[k] = "dir" /\ c[k] # "absent"

\* cache_fs.makedirs(dir, recreate=True): "ok" or DirectoryExpected when the
\* name is taken by a file.
MakedirsRecreate(d, k) == IF d[k] = "file" THEN "DirectoryExpected" ELSE "ok"

\* cache_fs.makedirs(dir): as above, and DirectoryExists when it is there.
Makedirs(d, k) ==
    CASE d[k] = "file" -> "DirectoryExpected"
      [] d[k] = "dir"  -> "DirectoryExists"
      [] OTHER         -> "ok"

(***************************************************************************)
(* Init of Spec: every starting cache state, backend and transport.        *)
(***************************************************************************)
StartStates == {"empty", "present", "blocked"}

InitDirs(s, nfiles) ==
    [k \in Paths |->
        IF k = OrigPath
        THEN CASE s = "empty"   -> "none"
               [] s = "present" -> "dir"
               [] OTHER         -> "file"
        ELSE IF s = "blocked" /\ k <= nfiles THEN "file" ELSE "none"]

InitCache(s) ==
    [k \in Paths |-> IF k = OrigPath /\ s = "present" THEN "complete" ELSE "absent"]

DownloadIdle ==
    /\ lockHolder = [k \in Paths |-> NoProc]
    /\ pc = [p \in Procs |-> "idle"]
    /\ clean = [p \in Procs |-> FALSE]
    /\ cpath = [p \in Procs |-> OrigPath]
    /\ exc = [p \in Procs |-> "none"]
    /\ ret = [p \in Procs |-> NoRet]
    /\ xfer = [p \in Procs |-> "none"]
    /\ after = [p \in Procs |-> {}]

Init ==
    /\ backend \in {"os", "mem"}
    /\ urlKind \in {"http", "ftp", "s3"}
    /\ initial \in StartStates
    /\ \E nfiles \in 0..MaxAltFiles :
          /\ (initial # "blocked" => nfiles = 0)
          /\ dirs = InitDirs(initial, nfiles)
    /\ cache = InitCache(initial)
    /\ DownloadIdle
    /\ ResolveIdle
    /\ InspectIdle

(***************************************************************************)
(* download(url, cache_fs, clean=...), fetch.py 236-337, one step at a      *)
(* time.                                                                   *)
(***************************************************************************)
\* The call begins: cache_path = os.path.join(netloc, path...) (264-270).
Call(p) ==
    /\ pc[p] = "idle"
    /\ \E c \in BOOLEAN : clean' = [clean EXCEPT ![p] = c]
    /\ pc' = [pc EXCEPT ![p] = "exists"]
    /\ cpath' = [cpath EXCEPT ![p] = OrigPath]
    /\ after' = [after EXCEPT ![p] = {q \in Procs : pc[q] = "done"}]
    /\ UNCHANGED <<uvars, ivars>>
    /\ UNCHANGED <<backend, urlKind, dirs, cache, lockHolder, exc, ret, xfer, initial>>

\* if not cache_fs.exists(cache_path): (273)
CheckExists(p) ==
    /\ pc[p] = "exists"
    /\ pc' = [pc EXCEPT ![p] =
                IF Exists(cache, dirs, cpath[p]) THEN "mklock" ELSE "makedirs"]
    /\ UNCHANGED <<uvars, ivars>>
    /\ UNCHANGED <<backend, urlKind, dirs, cache, lockHolder, clean, cpath, exc, ret,
                   xfer, after, initial>>

\* cache_fs.makedirs(cache_dir, recreate=True), except DirectoryExpected (277-279)
MakeDirs(p) ==
    /\ pc[p] = "makedirs"
    /\ IF MakedirsRecreate(dirs, cpath[p]) = "ok"
       THEN /\ dirs' = [dirs EXCEPT ![cpath[p]] = "dir"]
            /\ pc' = [pc EXCEPT ![p] = "mklock"]
            /\ cpath' = cpath
       ELSE \* the handler enters the loop with i = 0: cache_path = join(dn+'0', bn)
            /\ dirs' = dirs
            /\ pc' = [pc EXCEPT ![p] = "altdirs"]
            /\ cpath' = [cpath EXCEPT ![p] = AltPath(0)]
    /\ UNCHANGED <<uvars, ivars>>
    /\ UNCHANGED <<backend, urlKind, cache, lockHolder, clean, exc, ret, xfer, after,
                   initial>>

\* What one pass of the loop body (284-293) does once makedirs has answered r
\* for alternate path k: "break", "continue", "exhausted" (the loop ends
\* without a break) or "raise" (the raise e after the try).
AltLoopStep(r, k) ==
    CASE r = "ok"                -> "break"
      [] r = "DirectoryExpected" -> IF k = AltPath(NAlt - 1) THEN "exhausted"
                                                             ELSE "continue"
      [] OTHER                   -> "raise"

\* One iteration of: for i in range(10): cache_path = join(dn+str(i), bn);
\* cache_fs.makedirs(dirname(cache_path)) (284-293)
AltMakeDirs(p) ==
    /\ pc[p] = "altdirs"
    /\ LET k == cpath[p]
           step == AltLoopStep(Makedirs(dirs, k), k)
       IN  /\ dirs' = IF step = "break" THEN [dirs EXCEPT ![k] = "dir"] ELSE dirs
           /\ cpath' = IF step = "continue" THEN [cpath EXCEPT ![p] = k + 1] ELSE cpath
           /\ pc' = [pc EXCEPT ![p] =
                       CASE step = "continue" -> "altdirs"
                         [] step = "raise"    -> "done"
                         [] OTHER             -> "mklock"]
           /\ exc' = IF step = "raise" THEN [exc EXCEPT ![p] = "DirectoryExpected"]
                                       ELSE exc
    /\ UNCHANGED <<uvars, ivars>>
    /\ UNCHANGED <<backend, urlKind, cache, lockHolder, clean, ret, xfer, after, initial>>

\* lock = FileLock(cache_fs.getsyspath(cache_path + '.lock')); on NoSysPath
\* lock = _NoOpFileLock(), whose __init__(self, lf) wants an argument (295-303,
\* 437): the call without one raises TypeError inside the except clause.
MakeLockOutcome(b) == IF b = "os" THEN "FileLock" ELSE "TypeError"

MakeLock(p) ==
    /\ pc[p] = "mklock"
    /\ IF MakeLockOutcome(backend) = "FileLock"
       THEN /\ pc' = [pc EXCEPT ![p] = "acquire"]
            /\ exc' = exc
       ELSE /\ pc' = [pc EXCEPT ![p] = "done"]
            /\ exc' = [exc EXCEPT ![p] = MakeLockOutcome(backend)]
    /\ UNCHANGED <<uvars, ivars>>
    /\ UNCHANGED <<backend, urlKind, dirs, cache, lockHolder, clean, cpath, ret, xfer,
                   after, initial>>

\* A lock that never blocks: what _NoOpFileLock does on every backend
NeverLocked(l, k) == TRUE

\* FileLock.acquire succeeds when no one holds the lock file of this cache path.
LockFree(l, k) == l[k] = NoProc

\* with lock: (305) blocks until the lock of this cache path is free. The lock
\* file lives in the directory of the cache path; when the loop above ended
\* without creating one, opening it fails.
AcquireLock(p) ==
    /\ pc[p] = "acquire"
    /\ IF dirs[cpath[p]] # "dir"
       THEN /\ pc' = [pc EXCEPT ![p] = "done"]
            /\ exc' = [exc EXCEPT ![p] = "OSError"]
            /\ lockHolder' = lockHolder
       ELSE /\ LockFree(lockHolder, cpath[p])
            /\ lockHolder' = [lockHolder EXCEPT ![cpath[p]] = p]
            /\ pc' = [pc EXCEPT ![p] = "locked"]
            /\ exc' = exc
    /\ UNCHANGED <<uvars, ivars>>
    /\ UNCHANGED <<backend, urlKind, dirs, cache, clean, cpath, ret, xfer, after, initial>>

\* An __exit__ that leaves the lock held
StayLocked(l, k) == l

\* The lock's __exit__: release.
Release(l, k) == [l EXCEPT ![k] = NoProc]

\* if cache_fs.exists(cache_path): if clean: remove else return cache_path, None
\* (306-313). "hit" or "transfer".
LockedChoice(present, cl) == IF present /\ ~cl THEN "hit" ELSE "transfer"

LockedCheck(p) ==
    /\ pc[p] = "locked"
    /\ LET k == cpath[p]
           present == Exists(cache, dirs, k)
       IN  IF LockedChoice(present, clean[p]) = "hit"
           THEN /\ ret' = [ret EXCEPT ![p] = [path |-> k, time |-> "None"]]
                /\ lockHolder' = Release(lockHolder, k)
                /\ pc' = [pc EXCEPT ![p] = "done"]
                /\ cache' = cache
                /\ xfer' = xfer
           ELSE \* cache_fs.remove(cache_path) when clean, then _download(...) is entered
                /\ cache' = IF present THEN [cache EXCEPT ![k] = "absent"] ELSE cache
                /\ pc' = [pc EXCEPT ![p] = "request"]
                /\ xfer' = [xfer EXCEPT ![p] = "started"]
                /\ UNCHANGED <<ret, lockHolder>>
    /\ UNCHANGED <<uvars, ivars>>
    /\ UNCHANGED <<backend, urlKind, dirs, clean, cpath, exc, after, initial>>

(***************************************************************************)
(* _download, fetch.py 174-233.                                            *)
(***************************************************************************)
\* What can be raised before the cache file is opened: requests.get and
\* raise_for_status (221-222), urlopen (202), get_s3 (189).
RequestFailures(kind) ==
    CASE kind = "http" -> {"HTTPError", "Exception", "KeyboardInterrupt"}
      [] kind = "ftp"  -> {"Exception", "KeyboardInterrupt"}
      [] OTHER         -> {"Exception", "KeyboardInterrupt"}

\* What can be raised while the cache file is open for writing: a read or
\* write error, an interruption, and for s3 the missing object (s3.open, 194-197).
CopyFailures(kind) ==
    CASE kind = "s3" -> {"ResourceNotFound", "Exception", "KeyboardInterrupt"}
      [] OTHER       -> {"Exception", "KeyboardInterrupt"}

\* The request is answered and cache_fs.open(cache_path, 'wb') creates the file.
OpenCacheFile(c, k) == [c EXCEPT ![k] = "partial"]

DownloadOpen(p) ==
    /\ pc[p] = "request"
    /\ cache' = OpenCacheFile(cache, cpath[p])
    /\ pc' = [pc EXCEPT ![p] = "copying"]
    /\ UNCHANGED <<uvars, ivars>>
    /\ UNCHANGED <<backend, urlKind, dirs, lockHolder, clean, cpath, exc, ret, xfer,
                   after, initial>>

\* The request fails before any byte is written.
DownloadRequestFails(p) ==
    /\ pc[p] = "request"
    /\ \E e \in RequestFailures(urlKind) : exc' = [exc EXCEPT ![p] = e]
    /\ pc' = [pc EXCEPT ![p] = "handler"]
    /\ UNCHANGED <<uvars, ivars>>
    /\ UNCHANGED <<backend, urlKind, dirs, cache, lockHolder, clean, cpath, ret, xfer,
                   after, initial>>

\* copy_file_or_flo / the ftp read loop runs to the end and the file is closed;
\* download returns cache_path, time.time() through the lock's __exit__ (318).
CloseCacheFile(c, k) == [c EXCEPT ![k] = "complete"]

DownloadCopyDone(p) ==
    /\ pc[p] = "copying"
    /\ cache' = CloseCacheFile(cache, cpath[p])
    /\ xfer' = [xfer EXCEPT ![p] = "completed"]
    /\ ret' = [ret EXCEPT ![p] = [path |-> cpath[p], time |-> "time"]]
    /\ lockHolder' = Release(lockHolder, cpath[p])
    /\ pc' = [pc EXCEPT ![p] = "done"]
    /\ UNCHANGED <<uvars, ivars>>
    /\ UNCHANGED <<backend, urlKind, dirs, clean, cpath, exc, after, initial>>

\* The copy is cut short: the file stays as far as it was written.
DownloadCopyFails(p) ==
    /\ pc[p] = "copying"
    /\ \E e \in CopyFailures(urlKind) : exc' = [exc EXCEPT ![p] = e]
    /\ pc' = [pc EXCEPT ![p] = "handler"]
    /\ UNCHANGED <<uvars, ivars>>
    /\ UNCHANGED <<backend, urlKind, dirs, cache, lockHolder, clean, cpath, ret, xfer,
                   after, initial>>

\* An except clause that leaves the cache as the transfer left it
KeepPartial(c, d, k) == c

\* except (KeyboardInterrupt, Exception): if cache_fs.exists(cache_path):
\* cache_fs.remove(cache_path) (323-330)
RemovePartial(c, d, k) == IF Exists(c, d, k) THEN [c EXCEPT ![k] = "absent"] ELSE c

\* The except clauses of download (320-332), then the lock's __exit__:
\* HTTPError becomes SourceError with no clean-up; anything else removes the
\* file and is raised again.
Handler(p) ==
    /\ pc[p] = "handler"
    /\ IF exc[p] = "HTTPError"
       THEN /\ exc' = [exc EXCEPT ![p] = "SourceError"]
            /\ cache' = cache
       ELSE /\ exc' = exc
            /\ cache' = RemovePartial(cache, dirs, cpath[p])
    /\ lockHolder' = Release(lockHolder, cpath[p])
    /\ pc' = [pc EXCEPT ![p] = "done"]
    /\ UNCHANGED <<uvars, ivars>>
    /\ UNCHANGED <<backend, urlKind, dirs, clean, cpath, ret, xfer, after, initial>>

Next ==
    \E p \in Procs :
        \/ Call(p)
        \/ CheckExists(p)
        \/ MakeDirs(p)
        \/ AltMakeDirs(p)
        \/ MakeLock(p)
        \/ AcquireLock(p)
        \/ LockedCheck(p)
        \/ DownloadOpen(p)
        \/ DownloadRequestFails(p)
        \/ DownloadCopyDone(p)
        \/ DownloadCopyFails(p)
        \/ Handler(p)


Spec == Init /\ [][Next]_vars

\* Any step of caller p's call after it began
Proceed(p) ==
    \/ CheckExists(p)
    \/ MakeDirs(p)
    \/ AltMakeDirs(p)
    \/ MakeLock(p)
    \/ AcquireLock(p)
    \/ LockedCheck(p)
    \/ DownloadOpen(p)
    \/ DownloadRequestFails(p)
    \/ DownloadCopyDone(p)
    \/ DownloadCopyFails(p)
    \/ Handler(p)

\* Spec with callers that keep running: a call that can take a step takes
\* one (each caller is a thread or process of its own, FileLock.acquire
\* polls the lock file until it is free, and a transfer ends, completed or
\* cut short).
SpecLive == Init /\ [][Next]_vars /\ \A p \in Procs : WF_vars(Proceed(p))
\* download's variables while no download runs
DownloadAtRest ==
    /\ backend = "os"
    /\ urlKind = "http"
    /\ initial = "empty"
    /\ dirs = InitDirs("empty", 0)
    /\ cache = InitCache("empty")
    /\ DownloadIdle

(***************************************************************************)
(* SpecResolve: a locator, with or without keyword arguments, is parsed,   *)
(* unparsed and parsed again; or resolved, serialized and resolved again;  *)
(* or resolved and updated: with a target file, a segment, or nothing.     *)
(***************************************************************************)
Schemes ==
    {"", "http://h", "http://h:80", "http://u:p@h", "ftp://h", "s3://bkt", "gs://KEY",
     "socrata+http://h", "ckan+http://h", "metatab+http://h", "program+file:",
     "ipynb+file:", "app://h", "a+b+http://h", "file://h", "mailto:"}
UrlPaths ==
    {"", "/d/a.csv", "/a.zip", "/d/a.csv.zip", "/a.zip.csv.zip", "/a.xlsx", "/n.ipynb",
     "/a;b.csv?x=1"}
Fragments == {"", "#s", "#f.csv;s", "#f.xlsx;S+1", "#a%2Bb.csv", "#%252B.csv;s"}

Locators == {s \o p \o f : s \in Schemes, p \in UrlPaths, f \in Fragments}

KwargsGiven ==
    {NoKwargs,
     [NoKwargs EXCEPT !.force_archive = TRUE],
     [NoKwargs EXCEPT !.target_format = "CSV"],
     [NoKwargs EXCEPT !.resource_format = "CSV"]}

FileNames == {"b.xlsx", "c", "a+b.csv", "D.TSV"}

Segments == {"Q1", "S+1"}

ResolveInit ==
    /\ DownloadAtRest
    /\ InspectIdle
    /\ locator \in Locators
    /\ kwargs \in KwargsGiven
    /\ upc = "input"
    /\ ResolveUnset

\* parse_url_to_dict(locator)
Parse ==
    /\ upc = "input"
    /\ parsed' = parse_url_to_dict(locator)
    /\ upc' = "parsed"
    /\ UNCHANGED <<locator, kwargs, unparsed, reparsed, handler, desc, rebuilt, again,
                   given, updated>>
    /\ UNCHANGED <<dvars, ivars>>

\* unparse_url_dict(parsed)
Unparse ==
    /\ upc = "parsed"
    /\ parsed.exc = ""
    /\ unparsed' = unparse_url_dict(parsed)
    /\ upc' = "unparsed"
    /\ UNCHANGED <<locator, kwargs, parsed, reparsed, handler, desc, rebuilt, again,
                   given, updated>>
    /\ UNCHANGED <<dvars, ivars>>

\* parse_url_to_dict(unparsed)
Reparse ==
    /\ upc = "unparsed"
    /\ reparsed' = parse_url_to_dict(unparsed)
    /\ upc' = "reparsed"
    /\ UNCHANGED <<locator, kwargs, parsed, unparsed, handler, desc, rebuilt, again,
                   given, updated>>
    /\ UNCHANGED <<dvars, ivars>>

\* Url(locator, **kwargs): Url.__new__ asks get_handler for the class
Construct ==
    /\ upc = "input"
    /\ handler' = get_handler(locator, kwargs)
    /\ desc' = Url(locator, kwargs)
    /\ upc' = "constructed"
    /\ UNCHANGED <<locator, kwargs, parsed, unparsed, reparsed, rebuilt, again, given,
                   updated>>
    /\ UNCHANGED <<dvars, ivars>>

\* desc.rebuild_url()
Rebuild ==
    /\ upc = "constructed"
    /\ desc.exc = ""
    /\ rebuilt' = rebuild_url(desc, None, None)
    /\ upc' = "rebuilt"
    /\ UNCHANGED <<locator, kwargs, parsed, unparsed, reparsed, handler, desc, again,
                   given, updated>>
    /\ UNCHANGED <<dvars, ivars>>

\* Url(rebuilt)
Resolve ==
    /\ upc = "rebuilt"
    /\ ~IsExc(rebuilt)
    /\ again' = Url(rebuilt, NoKwargs)
    /\ upc' = "resolved"
    /\ UNCHANGED <<locator, kwargs, parsed, unparsed, reparsed, handler, desc, rebuilt,
                   given, updated>>
    /\ UNCHANGED <<dvars, ivars>>

\* desc.update(target_file=f)
UpdateTargetFile(f) ==
    /\ upc = "constructed"
    /\ desc.exc = ""
    /\ given' = f
    /\ updated' = update(desc, [NoOverrides EXCEPT !.target_file = f])
    /\ upc' = "updated"
    /\ UNCHANGED <<locator, kwargs, parsed, unparsed, reparsed, handler, desc, rebuilt,
                   again>>
    /\ UNCHANGED <<dvars, ivars>>

\* desc.update(target_segment=s)
UpdateTargetSegment(s) ==
    /\ upc = "constructed"
    /\ desc.exc = ""
    /\ given' = s
    /\ updated' = update(desc, [NoOverrides EXCEPT !.target_segment = s])
    /\ upc' = "segmented"
    /\ UNCHANGED <<locator, kwargs, parsed, unparsed, reparsed, handler, desc, rebuilt,
                   again>>
    /\ UNCHANGED <<dvars, ivars>>

\* desc.update()
UpdateNothing ==
    /\ upc = "constructed"
    /\ desc.exc = ""
    /\ given' = None
    /\ updated' = update(desc, NoOverrides)
    /\ upc' = "copied"
    /\ UNCHANGED <<locator, kwargs, parsed, unparsed, reparsed, handler, desc, rebuilt,
                   again>>
    /\ UNCHANGED <<dvars, ivars>>

ResolveNext ==
    \/ Parse
    \/ Unparse
    \/ Reparse
    \/ Construct
    \/ Rebuild
    \/ Resolve
    \/ \E f \in FileNames : UpdateTargetFile(f)
    \/ \E s \in Segments : UpdateTargetSegment(s)
    \/ UpdateNothing

SpecResolve == ResolveInit /\ [][ResolveNext]_vars

(***************************************************************************)
(* SpecInspect: a descriptor and the resource behind it; inspect, and      *)
(* inspect of its result; or enumerate_contents, and inspect of each leaf. *)
(* The fetch succeeds: the resource is there (download is Spec's subject). *)
(***************************************************************************)
\* external_attr as (upper 16 bits, lower 16 bits): a file and a directory
\* zipped on unix, an entry without attributes, the DOS archive bit, DOS
\* read-only + archive, the DOS directory bit.
UnixFile == [hi |-> 33188, lo |-> 0]
UnixDir == [hi |-> 16877, lo |-> 16]
NoAttr == [hi |-> 0, lo |-> 0]
DosArchive == [hi |-> 0, lo |-> 32]
DosReadOnly == [hi |-> 0, lo |-> 33]

Entry(name, attr, book, sheets) ==
    [name |-> name, hi |-> attr.hi, lo |-> attr.lo, book |-> book, sheets |-> sheets]

EntryPool ==
    {Entry("a.csv", UnixFile, FALSE, <<>>),
     Entry("d/", UnixDir, FALSE, <<>>),
     Entry("e/", NoAttr, FALSE, <<>>),
     Entry("r.csv", DosReadOnly, FALSE, <<>>),
     Entry(".hid", UnixFile, FALSE, <<>>),
     Entry("a+b.csv", UnixFile, FALSE, <<>>),
     Entry("ab.xlsx", DosArchive, TRUE, <<"X", "Y", "Z">>),
     Entry("b.xlsx", NoAttr, TRUE, <<"P", "S 2">>),
     Entry("c.xls", UnixFile, TRUE, <<"a;b", "S1">>)}

\* The archives: up to MaxEntries entries, no name twice
Archives ==
    UNION {{a \in [1..n -> EntryPool] : \A i, j \in 1..n : i # j => a[i] # a[j]} :
           n \in 0..MaxEntries}

SheetLists == {<<>>, <<"S1">>, <<"S1", "Q1+Q2">>, <<"a;b", "S1">>}

Subjects ==
    {[loc |-> "http://h/a.zip", kw |-> NoKwargs],
     [loc |-> "http://h/a.zip#b.xlsx", kw |-> NoKwargs],
     [loc |-> "http://h/a.zip#b.xlsx;P", kw |-> NoKwargs],
     [loc |-> "http://h/d/a.csv.zip", kw |-> NoKwargs],
     [loc |-> "http://h/a.csv", kw |-> [NoKwargs EXCEPT !.force_archive = TRUE]],
     [loc |-> "http://h/a.csv#c.xls;S1", kw |-> [NoKwargs EXCEPT !.force_archive = TRUE]],
     [loc |-> "http://h/a.xlsx", kw |-> NoKwargs],
     [loc |-> "http://h/a.xlsx#S1", kw |-> NoKwargs],
     [loc |-> "file:/d/a.csv", kw |-> NoKwargs],
     [loc |-> "/b.xlsx", kw |-> NoKwargs],
     [loc |-> "rel/a.csv", kw |-> NoKwargs],
     [loc |-> "gs://KEY#2", kw |-> NoKwargs]}

\* What is behind a descriptor's resource_url: of the kind its formats say
ResourcesFor(d) ==
    IF is_archive(d)
    THEN {[kind |-> "zip", entries |-> a, sheets |-> <<>>] : a \in Archives}
    ELSE IF d.target_format \in {"xls", "xlsx"}
    THEN {[kind |-> "xlsx", entries |-> <<>>, sheets |-> s] : s \in SheetLists}
    ELSE {[kind |-> "csv", entries |-> <<>>, sheets |-> <<>>]}

InspectInit ==
    /\ DownloadAtRest
    /\ ResolveIdle
    /\ \E input \in Subjects : subject = Url(input.loc, input.kw)
    /\ resource \in ResourcesFor(subject)
    /\ ipc = "start"
    /\ InspectUnset

\* download_and_cache(spec, cache_fs) of each descriptor of a list: a file:
\* resource is read in place, any other is in the cache afterwards
Fetches(l) ==
    {l[i].resource_url : i \in {j \in 1..Len(l) : l[j].init /\ l[j].proto # "file"}}

\* inspect(subject, cache_fs)
Inspect ==
    /\ ipc = "start"
    /\ found' = inspect(subject, resource)
    /\ fetched' = fetched \cup Fetches(<<subject>>)
    /\ ipc' = "inspected"
    /\ UNCHANGED <<subject, resource, second, leaves, leafIx, third, got>>
    /\ UNCHANGED <<dvars, uvars>>

\* inspect(found[0], cache_fs), when inspect returned a single descriptor
InspectAgain ==
    /\ ipc = "inspected"
    /\ found.exc = ""
    /\ Len(found.list) = 1
    /\ second' = inspect(found.list[1], resource)
    /\ fetched' = fetched \cup Fetches(found.list)
    /\ ipc' = "again"
    /\ UNCHANGED <<subject, resource, found, leaves, leafIx, third, got>>
    /\ UNCHANGED <<dvars, uvars>>

\* list(enumerate_contents(subject, cache_fs)): first is what the first
\* pass returned
EnumerateOver(first) ==
    /\ ipc = "start"
    /\ leaves' = EnumerateFrom(first, resource)
    /\ fetched' = fetched \cup Fetches(<<subject>> \o first.list)
    /\ ipc' = "enumerated"
    /\ UNCHANGED <<subject, resource, found, second, leafIx, third, got>>
    /\ UNCHANGED <<dvars, uvars>>

Enumerate == EnumerateOver(inspect(subject, resource))

\* inspect(leaf, cache_fs) for the next of the leaves: a third pass
InspectLeaf ==
    /\ ipc \in {"enumerated", "leaf"}
    /\ leafIx < Len(leaves.list)
    /\ leafIx' = leafIx + 1
    /\ third' = inspect(leaves.list[leafIx + 1], resource)
    /\ fetched' = fetched \cup Fetches(<<leaves.list[leafIx + 1]>>)
    /\ ipc' = "leaf"
    /\ UNCHANGED <<subject, resource, found, second, leaves, got>>
    /\ UNCHANGED <<dvars, uvars>>

\* os.path.abspath(p), for paths without '..' and '//': a relative path is
\* joined to the working directory
Abspath(p) == IF StartsWith(p, "/") THEN p ELSE PathJoin("/cwd", p)

\* Url.__repr__
Repr(spec) == "<" \o spec.cls \o " " \o rebuild_url(spec, None, None) \o ">"

\* A test that sends every descriptor to download()
NeverInPlace(spec) == FALSE

\* if spec.proto == 'file': (fetch.py 29)
ReadInPlace(spec) == spec.proto = "file"

\* The file: branch of download_and_cache (30-41): no call of download();
\* there says whether os.path.exists(sys_path)
LocalParts(spec, ps, there) ==
    IF ps.exc # "" THEN [exc |-> ps.exc, remote |-> FALSE, there |-> there]
    ELSE IF ~there
    THEN [exc |-> "IOError", remote |-> FALSE, there |-> there,
          message |-> "File resource does not exist. '" \o Repr(spec)
                         \o "'. working_dir=''"]
    ELSE [exc |-> "", remote |-> FALSE, there |-> there, cache_path |-> ps.path,
          download_time |-> None, sys_path |-> Abspath(ps.path)]

\* The other branch (43-47): download(spec.resource_url, cache_fs, ...), which
\* here succeeds, as a cache hit or with a transfer
CachedParts(spec, hit) ==
    [exc |-> "", remote |-> TRUE, there |-> TRUE,
     cache_path |-> cache_path(spec.resource_url),
     download_time |-> IF hit THEN None ELSE "time",
     sys_path |-> PathJoin("/cache", cache_path(spec.resource_url))]

\* download_and_cache(spec, cache_fs), fetch.py 25-49
download_and_cache(spec, there, hit) ==
    IF ~spec.init THEN [exc |-> "AttributeError", remote |-> FALSE, there |-> there]
    ELSE IF ReadInPlace(spec)
    THEN LocalParts(spec, parse_url_to_dict(spec.resource_url), there)
    ELSE CachedParts(spec, hit)

\* download_and_cache(subject, cache_fs): the cache and its locks are
\* download's to change, which the file: branch does not call
FetchOnly ==
    /\ ipc = "start"
    /\ \E there, hit \in BOOLEAN : got' = download_and_cache(subject, there, hit)
    /\ fetched' = IF got'.remote THEN fetched \cup {subject.resource_url} ELSE fetched
    /\ ipc' = "fetched"
    /\ UNCHANGED <<subject, resource, found, second, leaves, leafIx, third>>
    /\ UNCHANGED <<dvars, uvars>>

InspectNext ==
    \/ Inspect
    \/ InspectAgain
    \/ Enumerate
    \/ InspectLeaf
    \/ FetchOnly

SpecInspect == InspectInit /\ [][InspectNext]_vars

(***************************************************************************)
(* Claims about download.                                                  *)
(***************************************************************************)
\* Callers whose call is inside _download or its except clause.
InTransfer(k) == {p \in Procs : cpath[p] = k /\ pc[p] \in {"request", "copying", "handler"}}

Completed == {p \in Procs : xfer[p] = "completed"}

\* q's call began after p's call had ended: two successive calls.
Successive(p, q) == p # q /\ p \in after[q]

\* C1 (as claimed): of two successive calls with clean unset, the second
\* returns the cache path the first returned, enters no transfer and reports
\* no download time.
C1_SecondCallIsHit ==
    \A p, q \in Procs :
        (/\ Successive(p, q) /\ pc[q] = "done"
         /\ ~clean[p] /\ ~clean[q]
         /\ ret[p] # NoRet)
        => (ret[q] = [path |-> ret[p].path, time |-> "None"] /\ xfer[q] = "none")

\* The failures of the transfer itself: HTTP error status (raised again as
\* SourceError), transport exception, missing S3 object, interruption.
TransferFailures == {"SourceError", "Exception", "KeyboardInterrupt", "ResourceNotFound"}

RealLocksNoClean == backend = "os" /\ \A p \in Procs : ~clean[p]

\* C3 (as claimed): at most one caller is inside the transfer, at most one
\* transfer completes, and no other caller that gets the lock ever enters a
\* transfer: all of them are cache hits.
C3_OnlyOneCallerEverTransfers ==
    RealLocksNoClean =>
        /\ \A k \in Paths : Cardinality(InTransfer(k)) <= 1
        /\ Cardinality(Completed) <= 1
        /\ Cardinality({p \in Procs : xfer[p] # "none"}) <= 1

\* C3 (amended): at most one caller is inside the transfer at a time, at most
\* one transfer completes, a caller that returns without having completed a
\* transfer returns a cache hit, and no caller enters a transfer once one has
\* completed. (A caller that gets the lock after a failed transfer transfers.)
C3_Safe ==
    RealLocksNoClean =>
        /\ \A k \in Paths : Cardinality(InTransfer(k)) <= 1
        /\ Cardinality(Completed) <= 1
        /\ \A q \in Procs :
              (ret[q] # NoRet /\ xfer[q] # "completed")
              => (ret[q].time = "None" /\ xfer[q] = "none"
                  /\ Exists(cache, dirs, ret[q].path))

C3_NoTransferAfterCompletion ==
    RealLocksNoClean =>
        \A q \in Procs : (xfer[q] = "none" /\ xfer'[q] = "started") => Completed = {}

C3_AtMostOneTransferCompletes ==
    []C3_Safe /\ [][C3_NoTransferAfterCompletion]_dvars

\* C3 witness: two overlapping calls, one completed the transfer and the
\* other returned the same path as a cache hit.
C3_Witness ==
    /\ RealLocksNoClean
    /\ \E p, q \in Procs :
          /\ p # q /\ ~Successive(p, q) /\ ~Successive(q, p)
          /\ xfer[p] = "completed"
          /\ ret[q] = [path |-> ret[p].path, time |-> "None"]

(***************************************************************************)
(* Claims about locators and descriptors.                                  *)
(***************************************************************************)
\* Two descriptors with the same proto, resource and target fields
Equivalent(a, b) ==
    /\ a.proto = b.proto
    /\ a.resource_url = b.resource_url
    /\ a.resource_file = b.resource_file
    /\ a.resource_format = b.resource_format
    /\ a.target_file = b.target_file
    /\ a.target_format = b.target_format
    /\ a.target_segment = b.target_segment

\* C4 (as claimed): the descriptor resolved from a locator serializes with
\* rebuild_url() to a string that resolves to a descriptor with the same
\* proto, resource and target fields.
C4_RebuildRoundTrips ==
    /\ (upc = "rebuilt" /\ kwargs = NoKwargs) => ~IsExc(rebuilt)
    /\ (upc = "resolved" /\ kwargs = NoKwargs) => (again.exc = "" /\ Equivalent(desc, again))

\* The lower-cased extension of f, or the resource format when f has none
FormatOf(f, resource_format) ==
    IF Truthy(file_ext(f)) THEN file_ext(f) ELSE resource_format

\* C5 (as claimed): d.update(target_file=f) returns a descriptor whose
\* target_file is f and whose target_format is the lower-cased extension of
\* f (the resource format when f has none), not the one d carried.
C5_UpdateRecomputesTargetFormat ==
    upc = "updated" =>
        /\ updated.exc = ""
        /\ updated.target_file = given
        /\ updated.target_format = FormatOf(given, updated.resource_format)

\* The variants in the order the claim gives them
Variants ==
    <<"NotebootUrl", "ProgramUrl", "MetatabPackageUrl", "CkanUrl", "SocrataUrl",
      "GoogleProtoCsvUrl", "ZipUrl", "ExcelUrl", "S3Url", "ApplicationUrl", "GeneralUrl">>

\* C6 (as claimed): constructing a locator from any string, with or without
\* keyword overrides, never raises and selects one variant: the first in the
\* fixed order that the handlers are tried in.
C6_ClassificationIsTotal ==
    /\ url_handlers = Variants
    /\ upc = "constructed" =>
          /\ \E i \in 1..Len(Variants) : handler = Variants[i]
          /\ desc.exc = ""
          /\ desc.cls = handler

\* C7 (as claimed): parsing what unparse_url_dict makes of a parsed locator
\* gives the parsed locator again, field by field.
C7_ParseUnparseParse ==
    upc = "reparsed" =>
        /\ reparsed.exc = ""
        /\ reparsed.scheme = parsed.scheme
        /\ reparsed.scheme_extension = parsed.scheme_extension
        /\ reparsed.netloc = parsed.netloc
        /\ reparsed.path = parsed.path
        /\ reparsed.query = parsed.query
        /\ reparsed.fragment = parsed.fragment
        /\ reparsed.username = parsed.username
        /\ reparsed.password = parsed.password
        /\ reparsed.port = parsed.port
(***************************************************************************)
(* Claims about inspect and enumerate_contents.                            *)
(***************************************************************************)
\* An entry that is no directory marker and whose basename begins with
\* neither '__' nor '.'
IsRealEntry(e) ==
    /\ ~EndsWith(e.name, "/")
    /\ ~StartsWith(Basename(e.name), "__")
    /\ ~StartsWith(Basename(e.name), ".")

RealEntries(entries) == SelectSeq(entries, IsRealEntry)

\* A descriptor of an archive whose target file is not pinned
UnpinnedArchive(d) == d.init /\ is_archive(d) /\ d.target_file = None

\* C8 (as claimed): inspect of an archive descriptor without a pinned target
\* file returns one child per real entry, in archive order, with that
\* entry's name as target_file and the parent's resource_url.
C8_OneChildPerRealEntry ==
    (ipc = "inspected" /\ UnpinnedArchive(subject)) =>
        /\ found.exc = ""
        /\ Len(found.list) = Len(RealEntries(resource.entries))
        /\ \A i \in 1..Len(found.list) :
              /\ found.list[i].target_file = RealEntries(resource.entries)[i].name
              /\ found.list[i].resource_url = subject.resource_url

\* Target file and target segment both set
FullyPinned(d) == d.init /\ Truthy(d.target_file) /\ Truthy(d.target_segment)

\* Neither an archive nor a spreadsheet
NonContainer(d) == d.init /\ ~is_archive(d) /\ d.target_format \notin {"xls", "xlsx"}

\* A list of exactly one descriptor, equivalent to d
JustOne(r, d) == r.exc = "" /\ Len(r.list) = 1 /\ Equivalent(r.list[1], d)

\* C9 (as claimed): inspect of a fully pinned or non-container descriptor
\* returns one descriptor equivalent to it, and inspect of that one returns
\* it again.
C9_PinnedInspectIsIdentity ==
    (FullyPinned(subject) \/ NonContainer(subject)) =>
        /\ ipc = "inspected" => JustOne(found, subject)
        /\ ipc = "again" => JustOne(second, found.list[1])

\* An archive or a spreadsheet
Container(d) == d.init /\ (is_archive(d) \/ d.target_format \in {"xls", "xlsx"})

\* The file and the sheet that a descriptor of an archive pins are in it
PinnedIsThere(d, w) ==
    (w.kind = "zip" /\ Truthy(d.target_file)) =>
        \E i \in 1..Len(w.entries) :
            /\ w.entries[i].name = d.target_file
            /\ Truthy(d.target_segment) =>
                  \E j \in 1..Len(w.entries[i].sheets) :
                      w.entries[i].sheets[j] = d.target_segment

\* One leaf per sheet of a workbook entry, one per other real entry
RECURSIVE LeafCount(_)
LeafCount(entries) ==
    IF entries = <<>> THEN 0
    ELSE (IF entries[1].book THEN Len(entries[1].sheets) ELSE 1) + LeafCount(Tail(entries))

\* C10 (as claimed): what enumerate_contents yields for a container are
\* leaves: inspect of each returns one descriptor equivalent to it; the
\* workbook entries of an archive are expanded to one descriptor per sheet.
C10_EnumeratedAreLeaves ==
    (Container(subject) /\ PinnedIsThere(subject, resource)) =>
        /\ ipc = "enumerated" => leaves.exc = ""
        /\ (ipc = "enumerated" /\ UnpinnedArchive(subject)) =>
              Len(leaves.list) = LeafCount(RealEntries(resource.entries))
        /\ ipc = "leaf" => JustOne(third, leaves.list[leafIx])
(***************************************************************************)
(* Claims about the variants' resolved fields.                             *)
(***************************************************************************)
\* A locator with the s3 protocol has been resolved, without keyword arguments
S3Resolved ==
    /\ upc = "constructed" /\ kwargs = NoKwargs
    /\ StartsWith(locator, "s3://")

\* C11 (as claimed): every s3://bucket/key locator resolves to the resource
\* url https://s3.amazonaws.com/bucket/key and exposes the auth url
\* s3://bucket/key, whatever the extension of the key.
C11_S3ResolvesToPublicForm ==
    S3Resolved =>
        /\ desc.exc = ""
        /\ desc.resource_url = "https://s3.amazonaws.com/" \o desc.parts.netloc \o "/"
                                  \o Strip(desc.parts.path, "/")
        /\ auth_resource_url(desc) = "s3://" \o desc.parts.netloc \o "/"
                                        \o Strip(desc.parts.path, "/")

\* A Zip locator with a fragment has been resolved, without keyword arguments
ZipWithFragmentResolved ==
    /\ upc = "constructed" /\ kwargs = NoKwargs
    /\ desc.exc = "" /\ desc.cls = "ZipUrl"
    /\ Truthy(desc.parts.fragment)

\* The file and the segment a fragment "f;s" or "f" names
NamedFile(frag) == IF Contains(frag, ";") THEN Upto(frag, Find(frag, ";", 1) - 1) ELSE frag
NamedSegment(frag) == IF Contains(frag, ";") THEN From(frag, Find(frag, ";", 1) + 1) ELSE None

\* C12 (as claimed): a Zip locator with the fragment "f;s" has target_file f
\* and target_segment s, and with the fragment "f" target_file f and no
\* target_segment, whatever the name of the archive.
C12_ZipFragmentNamesFileAndSegment ==
    ZipWithFragmentResolved =>
        /\ desc.target_file = NamedFile(desc.parts.fragment)
        /\ desc.target_segment = NamedSegment(desc.parts.fragment)

\* A locator without a fragment whose resource file is named N.E.zip, E one
\* of csv, xls, xlsx, has been resolved, without keyword arguments
AliasResolved ==
    /\ upc = "constructed" /\ kwargs = NoKwargs
    /\ desc.exc = ""
    /\ ~Truthy(desc.parts.fragment)
    /\ \E ext \in {"csv", "xls", "xlsx"} :
          EndsWith(desc.resource_file, "." \o ext \o ".zip")

\* A file name without its last four characters: N.E of N.E.zip
WithoutFinalZip(name) == Upto(name, Len(name) - 4)

\* C13 (as claimed): a locator without a fragment whose resource file is
\* named N.E.zip resolves to resource_format zip, target_file N.E (only the
\* final .zip removed) and target_format E.
C13_DoubleExtensionAlias ==
    AliasResolved =>
        /\ desc.resource_format = "zip"
        /\ desc.target_file = WithoutFinalZip(desc.resource_file)
        /\ desc.target_format = file_ext(WithoutFinalZip(desc.resource_file))

\* None, or a string without an upper-case letter
LowerOrNone(v) == v = None \/ v = Lower(v)

\* Both formats of a descriptor
FormatsLower(o) == LowerOrNone(o.target_format) /\ LowerOrNone(o.resource_format)

\* C19 (as claimed): in every descriptor that construction or update
\* produces, whatever the keyword arguments (a format given in upper case
\* included), target_format and resource_format are each None or lower-case.
C19_FormatsAreLowerCase ==
    /\ (upc \in {"constructed", "updated"} /\ desc.exc = "") => FormatsLower(desc)
    /\ (upc = "updated" /\ updated.exc = "") => FormatsLower(updated)

\* A descriptor whose target_file is unset or has no extension
NoTargetExtension(o) == ~Truthy(o.target_file) \/ file_ext(o.target_file) = None

\* C20 (as claimed): when no target_format is given and target_file is
\* unset or has no extension, target_format equals resource_format, so that
\* target_format is None only if resource_format is None.
C20_TargetFormatFallsBack ==
    /\ (upc \in {"constructed", "updated"} /\ desc.exc = ""
            /\ kwargs.target_format = None /\ NoTargetExtension(desc))
        => desc.target_format = desc.resource_format
    /\ (upc = "updated" /\ updated.exc = "" /\ desc.exc = ""
            /\ ~Truthy(desc.target_format) /\ NoTargetExtension(updated))
        => updated.target_format = updated.resource_format

\* The variants with a _process_target_file of their own that sets the
\* target format: ZipUrl (481-489) and MetatabPackageUrl
OwnTargetFormat == {"ZipUrl", "MetatabPackageUrl"}

\* The target format of a descriptor that was given none and whose target
\* file is unset or has no extension
FallbackOf(o) ==
    CASE o.cls = "ZipUrl"            -> o.target_format = None
      [] o.cls = "MetatabPackageUrl" -> o.target_format = "metatab"
      [] OTHER                       -> o.target_format = o.resource_format

\* C20 (amended): when no target_format is given and target_file is unset or
\* has no extension, target_format equals resource_format in every variant
\* but two: a ZipUrl keeps target_format None, whatever its resource_format,
\* and a MetatabPackageUrl has target_format 'metatab'.
C20_FallbackByVariant ==
    /\ (upc \in {"constructed", "updated"} /\ desc.exc = ""
            /\ kwargs.target_format = None /\ NoTargetExtension(desc))
        => FallbackOf(desc)
    /\ (upc = "updated" /\ updated.exc = "" /\ desc.exc = ""
            /\ ~Truthy(desc.target_format) /\ NoTargetExtension(updated))
        => FallbackOf(updated)

\* C20 witness: a descriptor of a variant without a target format of its own
\* was given a resource_format and no target_format, its target file has no
\* extension, and its target_format is the resource_format
C20_Witness ==
    /\ upc = "constructed" /\ desc.exc = ""
    /\ kwargs.target_format = None /\ NoTargetExtension(desc)
    /\ desc.cls \notin OwnTargetFormat
    /\ desc.resource_format # None
    /\ desc.target_format = desc.resource_format
(***************************************************************************)
(* Claims about download's cache path, its guard and its clean flag.       *)
(***************************************************************************)
\* What a call can end with for reasons other than its guard: a failure of
\* the transfer, or a directory conflict.
OtherFailures == TransferFailures \cup {"DirectoryExpected", "OSError"}

\* C14 (as claimed): on a cache without system paths download falls back to
\* the no-op guard and does not fail because of it: a call that ends without
\* a transfer failure or a directory conflict has returned its cache path.
C14_NoOpGuardFallback ==
    \A p \in Procs :
        (backend = "mem" /\ pc[p] = "done" /\ exc[p] \notin OtherFailures)
        => (exc[p] = "none" /\ ret[p] # NoRet /\ ret[p].path = cpath[p])

\* The resource urls whose cache paths are compared: netloc, path and query
CacheNetlocs == {"h", "h.org:80"}
CachePaths == {"d/a.csv", "a.zip/"}
CacheQueries == {"", "x=1"}

\* {netloc}/{path without leading and trailing slash}, then /{sha224(query)}
\* exactly when there is a query
LayoutOf(n, p, q) ==
    n \o "/" \o Strip(p, "/") \o (IF q = "" THEN "" ELSE "/" \o Sha224(q))

CachePathFollowsLayout ==
    \A n \in CacheNetlocs, p \in CachePaths, q \in CacheQueries :
        cache_path("http://" \o n \o "/" \o p \o (IF q = "" THEN "" ELSE "?" \o q))
            = LayoutOf(n, p, q)

SettledPath ==
    IF dirs[OrigPath] = "file"
    THEN Min({k \in 1..NAlt : dirs[k] # "file"})
    ELSE OrigPath

CleanRemovesUnderLock(p) ==
    (pc[p] = "locked" /\ Exists(cache, dirs, cpath[p]) /\ pc'[p] # "locked")
    => /\ lockHolder[cpath[p]] = p
       /\ ~Exists(cache', dirs', cpath[p])
       /\ pc'[p] = "request" /\ xfer'[p] = "started"

\* A call with clean set on a cache that held the entry ends with the path
\* and a download time, unless the transfer itself failed.
CleanEndsWithTransfer(p) ==
    (initial = "present" /\ pc[p] # "done" /\ pc'[p] = "done")
    => \/ exc'[p] \in TransferFailures
       \/ /\ exc'[p] = "none" /\ xfer'[p] = "completed"
          /\ ret'[p] = [path |-> cpath[p], time |-> "time"]

\* C16 (as claimed): a call with clean set that finds an entry at the cache
\* path removes it while it holds the lock and before any byte is written,
\* then transfers, and returns the path with a download time: never the
\* stale entry as a cache hit.
C16_CleanReplacesEntry ==
    [][\A p \in Procs : clean[p] => (CleanRemovesUnderLock(p) /\ CleanEndsWithTransfer(p))]_dvars

\* C17 (as claimed): when the directory name of the cache path is taken by a
\* file, no call ends with the conflict, the first or a later one: a call
\* that ends without a transfer failure has returned an alternate path, and
\* a later call with clean unset returns the entry the earlier one cached.
C17_DirectoryConflictNeverFails ==
    (initial = "blocked" /\ backend = "os") =>
        /\ \A p \in Procs :
              (pc[p] = "done" /\ exc[p] \notin TransferFailures)
              => (exc[p] = "none" /\ ret[p] # NoRet /\ ret[p].path # OrigPath)
        /\ \A p, q \in Procs :
              (Successive(p, q) /\ pc[q] = "done" /\ ret[p] # NoRet /\ ~clean[q])
              => ret[q] = [path |-> ret[p].path, time |-> "None"]

\* download_and_cache was called for a descriptor with proto 'file'
FileFetched == ipc = "fetched" /\ subject.init /\ subject.proto = "file"

\* What it returned or raised
FileFetchedInPlace ==
    FileFetched =>
        /\ ~got.remote /\ fetched = {}
        /\ got.there => /\ got.exc = ""
                        /\ got.download_time = None
                        /\ got.sys_path = Abspath(subject.parts.path)
        /\ ~got.there => /\ got.exc = "IOError"
                         /\ got.message = "File resource does not exist. '"
                                             \o Repr(subject) \o "'. working_dir=''"

\* The step that called it left the cache, its directories and its locks
FileFetchTouchesNoCache ==
    (ipc' = "fetched" /\ subject.init /\ subject.proto = "file") => UNCHANGED dvars

\* C18: for a descriptor with proto 'file' download_and_cache calls no
\* download, takes no lock and leaves the cache unchanged; it returns the
\* local path with download_time None when the file exists, and raises an
\* error that names the descriptor when it does not.
C18_FileIsReadInPlace == []FileFetchedInPlace /\ [][FileFetchTouchesNoCache]_vars

\* C18 witness: download_and_cache returned the local path of a file that
\* exists
C18_Witness == FileFetched /\ got.there /\ got.exc = "" /\ got.sys_path = "/d/a.csv"
(***************************************************************************)
(* Claims about unparse_url_dict, the notebook variant and update.         *)
(***************************************************************************)
\* unparse_url_dict was applied to parts with the scheme file or mailto
LocalUnparsed == upc = "unparsed" /\ parsed.scheme \in {"file", "mailto"}

\* scheme:path, after the scheme extension when there is one
SchemeAndPath(d) ==
    (IF Truthy(d.scheme_extension) THEN d.scheme_extension \o "+" ELSE "")
    \o d.scheme \o ":" \o d.path

\* What follows the first '#' of a string, "" when it has none
AfterHash(s) == IF Contains(s, "#") THEN From(s, Find(s, "#", 1) + 1) ELSE ""

\* C21 (as claimed): for parts with the scheme file or mailto, with or without
\* a netloc, unparse_url_dict returns a string of the form scheme:path, with
\* no netloc segment, and its fragment is percent-encoded.
C21_LocalSchemesOmitNetloc ==
    LocalUnparsed =>
        /\ StartsWith(unparsed, SchemeAndPath(parsed))
        /\ Truthy(parsed.fragment) => AfterHash(unparsed) = QuotePlus(parsed.fragment)

\* A locator with the ipynb protocol extension was resolved, without keyword
\* arguments
NotebookResolved ==
    /\ upc = "constructed" /\ kwargs = NoKwargs
    /\ StartsWith(locator, "ipynb+")

\* C22 (as claimed): every locator with the ipynb protocol extension, whatever
\* the extension of its file, resolves without raising to a Notebook
\* descriptor with target_format 'ipynb', the scheme 'file' and the whole
\* fragment as target_segment.
C22_NotebookAlwaysResolves ==
    NotebookResolved =>
        /\ desc.exc = ""
        /\ desc.cls = "NotebootUrl"
        /\ desc.target_format = "ipynb"
        /\ desc.scheme = "file"
        /\ desc.target_segment = desc.parts.fragment

\* The fields update(target_segment=s) is to leave as they are
SameButSegment(a, b) ==
    /\ a.proto = b.proto
    /\ a.resource_url = b.resource_url
    /\ a.resource_format = b.resource_format
    /\ a.target_file = b.target_file

\* C23 (as claimed): d.update(target_segment=s) returns a descriptor with
\* target_segment s and the proto, resource_url, resource_format and
\* target_file of d, and d.update(target_file=f) returns one with the
\* target_segment of d, for every variant.
C23_UpdateChangesOneField ==
    /\ upc = "segmented" =>
          /\ updated.exc = ""
          /\ updated.target_segment = given
          /\ SameButSegment(desc, updated)
    /\ upc = "updated" =>
          /\ updated.exc = ""
          /\ updated.target_segment = desc.target_segment

\* C26 (as claimed): d.update() returns a descriptor of the variant of d with
\* the same proto, resource_url, resource_file, resource_format, is_archive,
\* target_file, target_format and target_segment.
C26_UpdateWithoutOverridesIsCopy ==
    upc = "copied" =>
        /\ updated.exc = ""
        /\ updated.cls = desc.cls
        /\ SameButSegment(desc, updated)
        /\ updated.resource_file = desc.resource_file
        /\ is_archive(updated) = is_archive(desc)
        /\ updated.target_format = desc.target_format
        /\ updated.target_segment = desc.target_segment
(***************************************************************************)
(* Claims about the lock of a cache path.                                  *)
(***************************************************************************)
\* Every cache path whose lock no caller holds is absent or complete
NoPartialUnlocked ==
    \A k \in Paths : lockHolder[k] = NoProc => cache[k] # "partial"

EndedHoldsNoLock ==
    \A p \in Procs : pc[p] = "done" => \A k \in Paths : lockHolder[k] # p

\* A caller waiting for a lock gets to the end of its call
WaitingEnds == \A p \in Procs : (pc[p] = "acquire") ~> (pc[p] = "done")

\* C25: a download call that acquired the lock of a cache path releases it on
\* every exit (hit, completed transfer, HTTP error, any other exception or
\* interruption); with callers that keep running and transfers that end,
\* every caller waiting for that lock acquires it and returns or raises, and
\* no set of concurrent calls deadlocks.
C25_LockIsReleasedAndWaitersProceed == []EndedHoldsNoLock /\ WaitingEnds

\* C25 witness: two overlapping calls on an empty cache have both ended, one
\* with a completed transfer, the other with the hit it found once it had
\* the lock
C25_Witness ==
    /\ backend = "os" /\ initial = "empty"
    /\ \E p, q \in Procs :
          /\ p # q /\ pc[p] = "done" /\ pc[q] = "done"
          /\ q \notin after[p] /\ p \notin after[q]
          /\ xfer[q] = "completed"
          /\ ret[p] = [path |-> cpath[q], time |-> "None"]
          /\ lockHolder[cpath[q]] = NoProc
====
